---------------------------- MODULE Spec2Model ----------------------------
(***************************************************************************)
(* runstats: single-pass Statistics, Regression and ExponentialStatistics  *)
(* accumulators (src/runstats/fast.pyx).                                   *)
(*                                                                         *)
(* A double is modelled as a normalised fraction [n |-> num, d |-> den]    *)
(* with d > 0; d = 0 holds the non-finite values (0/0 is NaN).  Every      *)
(* arithmetic operation of the source is one operator application here,    *)
(* in the source's order of evaluation, and its result goes through Rnd:   *)
(* the identity when the model runs in exact arithmetic, rounding to       *)
(* MantBits significant bits (nearest, ties to even) when it runs in       *)
(* binary floating point.                                                  *)
(***************************************************************************)
EXTENDS Integers, Sequences, FiniteSets, TLC

VARIABLES
    arith,      \* "exact" or "float": the arithmetic the doubles are evaluated in
    stats,      \* the Statistics objects, by name
    hist,       \* ghost: the values that went into each Statistics object, as a
                \* sorted sequence (the order they arrived in is not kept)
    sop,        \* ghost: the last Statistics call, [name, o, l, r]: o the object it
                \* wrote, l and r its left and right operands
    scaled,     \* ghost: for each Statistics object, whether a scaling (* or *=)
                \* went into it, directly or through an operand of a merge
    regr,       \* the Regression objects, by name
    rhist,      \* ghost: the (x, y) pairs that went into each Regression object,
                \* as a sorted sequence of indices into Points
    rop,        \* ghost: the last Regression call, [name, o, l, r]
    es,         \* the ExponentialStatistics object bound to the caller's name, or NoObj
    err,        \* outcome of the last ExponentialStatistics call: "ok" or "ValueError"
    eskept,     \* ghost: the last ExponentialStatistics call left es, the name and
                \* every field of the object, as it was when the call began
    esop,       \* ghost: the last ExponentialStatistics call, [name, has_decay, decay]
    npush,      \* ghost: pushes made into es
    nmerge,     \* ghost: merges and scalings made into es
    kind,       \* the class of the objects on the heap
    env,        \* the caller's names a and b: the address each is bound to
    heap,       \* the objects by address: a Statistics, an ExponentialStatistics,
                \* or a Regression holding the addresses of its xstats and ystats
    hop,        \* ghost: the last statement on the heap, [name, o, l, r]: o the
                \* name it mutated or bound
    hops,       \* ghost: statements made on the heap
    now,        \* the clock the time-based objects read
    ems,        \* the ExponentialMovingStatistics objects, by name
    ecov,       \* the ExponentialMovingCovariance object
    top,        \* ghost: the last call on a time-based object, [name, o, l, r, v]
    tg,         \* ghost: for each ExponentialMovingStatistics object, the clock
                \* events of its past
    tops,       \* ghost: calls made on the time-based objects
    tpush       \* ghost: pushes made into the time-based objects

vars == <<arith, stats, hist, sop, scaled, regr, rhist, rop, es, err, eskept, esop,
          npush, nmerge, kind, env, heap, hop, hops, now, ems, ecov, top, tg, tops,
          tpush>>

statsVars == <<stats, hist, sop, scaled>>
regrVars == <<regr, rhist, rop>>
expVars == <<es, err, eskept, esop, npush, nmerge>>
heapVars == <<kind, env, heap, hop, hops>>
timeVars == <<now, ems, ecov, top, tg, tops, tpush>>

(***************************************************************************)
(* Bounds of the model.                                                    *)
(***************************************************************************)
MaxVal == 1         \* values pushed into Statistics are 0..MaxVal
MaxTotal == 4       \* values held by all Statistics objects together
MaxThird == 2       \* values pushed into the third accumulator of a three-way merge
MaxPoint == 2       \* pairs pushed into Regression are Point(0)..Point(MaxPoint)
MaxPairs == 4       \* pairs held by all Regression objects together
MantBits == 3       \* significant bits of the floating point format
DecayDen == 2       \* decays offered are k/DecayDen, k in -1..DecayDen+1, and NaN
MaxExpVal == 1      \* values, means and variances offered are 0..MaxExpVal
MaxExpPush == 2     \* pushes into the ExponentialStatistics object
MaxFactor == 2      \* factors offered to Statistics scaling are -1, 0 and 2..MaxFactor
MaxExpMerge == 1    \* merges and scalings of the ExponentialStatistics object
MaxHeapOps == 3     \* statements made on the objects held by reference
MaxAddr == 11       \* addresses of the heap
MaxNow == 3         \* the clock reads 0..MaxNow
MaxDelay == 2       \* delays offered are 1..MaxDelay
MaxTimePush == 2    \* pushes into the time-based objects
MaxTimeOps == 3     \* calls made on the time-based objects

Vals == 0..MaxVal
\* The pairs offered to Regression.push: Point(1), Point(2), ... lie on the line
\* y = 2x + 1 and Point(0) lies off it.
Point(i) == IF i = 0 THEN <<1, 0>> ELSE <<i - 1, 2 * (i - 1) + 1>>
PointIds == 0..MaxPoint
Objs == {"a", "b"}
RObjs == {"ra", "rb"}

(***************************************************************************)
(* Fractions.                                                              *)
(***************************************************************************)
Abs(i) == IF i < 0 THEN 0 - i ELSE i

RECURSIVE GCD(_, _)
GCD(i, j) == IF j = 0 THEN i ELSE GCD(j, i % j)

Q(num, den) ==
    IF den = 0
    THEN [n |-> IF num > 0 THEN 1 ELSE IF num < 0 THEN 0 - 1 ELSE 0, d |-> 0]
    ELSE LET g == GCD(Abs(num), Abs(den))
             s == IF den < 0 THEN 0 - 1 ELSE 1
         IN  [n |-> s * (num \div g), d |-> s * (den \div g)]

I(i) == [n |-> i, d |-> 1]
NaN == [n |-> 0, d |-> 0]

IsNaN(x) == x.d = 0 /\ x.n = 0
IsFinite(x) == x.d # 0
Zero == I(0)
One == I(1)

\* Arithmetic on fractions; a NaN operand gives NaN.  (No specification below
\* divides by zero or produces an infinity.)
QAdd(x, y) ==
    IF ~IsFinite(x) \/ ~IsFinite(y) THEN NaN
    ELSE LET g == GCD(x.d, y.d)
         IN  Q(x.n * (y.d \div g) + y.n * (x.d \div g), (x.d \div g) * y.d)
QNeg(x) == [n |-> 0 - x.n, d |-> x.d]
QSub(x, y) == QAdd(x, QNeg(y))
QMul(x, y) ==
    IF ~IsFinite(x) \/ ~IsFinite(y) THEN NaN
    ELSE IF x.n = 0 \/ y.n = 0 THEN Zero
    ELSE LET g1 == GCD(Abs(x.n), y.d)
             g2 == GCD(Abs(y.n), x.d)
         IN  Q((x.n \div g1) * (y.n \div g2), (x.d \div g2) * (y.d \div g1))
QDiv(x, y) ==
    IF ~IsFinite(x) \/ ~IsFinite(y) THEN NaN ELSE QMul(x, Q(y.d, y.n))

RECURSIVE QPow(_, _)
QPow(x, k) == IF k = 0 THEN One ELSE QMul(x, QPow(x, k - 1))

\* The decays, and the values, means and variances, offered to
\* ExponentialStatistics.
Decays == {Q(k, DecayDen) : k \in (0 - 1)..(DecayDen + 1)} \cup {NaN}
ExpVals == {I(v) : v \in 0..MaxExpVal}

\* The factors offered to the scaling of Statistics.
Factors == {I(0 - 1), Zero} \cup {I(f) : f \in 2..MaxFactor}

\* IEEE comparisons: every ordered comparison with NaN is false.
Lt(x, y) == IsFinite(x) /\ IsFinite(y) /\ x.n * y.d < y.n * x.d
Le(x, y) == IsFinite(x) /\ IsFinite(y) /\ x.n * y.d <= y.n * x.d
Gt(x, y) == Lt(y, x)
Ge(x, y) == Le(y, x)
Eq(x, y) == IsFinite(x) /\ IsFinite(y) /\ x = y

(***************************************************************************)
(* Binary floating point with MantBits significant bits: the nearest       *)
(* representable value, ties to the even significand.  (The exponent       *)
(* range is not modelled: no overflow, no subnormals.)                     *)
(***************************************************************************)
RECURSIVE Pow2(_)
Pow2(k) == IF k = 0 THEN 1 ELSE 2 * Pow2(k - 1)

RoundHalfEven(q) ==
    LET m == q.n \div q.d
        r == 2 * (q.n % q.d)
    IN  IF r < q.d THEN m
        ELSE IF r > q.d THEN m + 1
        ELSE IF m % 2 = 0 THEN m ELSE m + 1

\* Twice and half a positive fraction in lowest terms, in lowest terms.
Twice(q) ==
    IF q.d % 2 = 0 THEN [n |-> q.n, d |-> q.d \div 2] ELSE [n |-> 2 * q.n, d |-> q.d]
Half(q) ==
    IF q.n % 2 = 0 THEN [n |-> q.n \div 2, d |-> q.d] ELSE [n |-> q.n, d |-> 2 * q.d]

\* q * s is the positive value being rounded; s is a power of two.
RECURSIVE FlScale(_, _)
FlScale(q, s) ==
    IF Lt(q, I(Pow2(MantBits - 1))) THEN FlScale(Twice(q), Half(s))
    ELSE IF Ge(q, I(Pow2(MantBits))) THEN FlScale(Half(q), Twice(s))
    ELSE IF s.d = 1 THEN I(RoundHalfEven(q) * s.n)
    ELSE Q(RoundHalfEven(q), s.d)

\* r with the sign of x
CopySign(r, x) == IF x.n < 0 THEN QNeg(r) ELSE r

Fl(x) ==
    IF x.d = 0 \/ x.n = 0 THEN x
    ELSE CopySign(FlScale([n |-> Abs(x.n), d |-> x.d], One), x)

Rnd(x) == IF arith = "exact" THEN x ELSE Fl(x)

Add(x, y) == Rnd(QAdd(x, y))
Sub(x, y) == Rnd(QSub(x, y))
Mul(x, y) == Rnd(QMul(x, y))
Div(x, y) == Rnd(QDiv(x, y))
Pow(x, k) == Rnd(QPow(x, k))

\* Mutant: min keeps the greater of the two.
PyMin_greater(a, b) == IF Gt(b, a) THEN b ELSE a

\* Python's min(a, b) and max(a, b): b when it compares below (above) a, else a.
PyMin(a, b) == IF Lt(b, a) THEN b ELSE a
PyMax(a, b) == IF Gt(b, a) THEN b ELSE a

(***************************************************************************)
(* Statistics                                                              *)
(***************************************************************************)
\* Mutant: clear leaves 0.0 in min and max.
Statistics_clear_zero_minmax ==
    [count |-> Zero, eta |-> Zero, rho |-> Zero, tau |-> Zero, phi |-> Zero,
     min |-> Zero, max |-> Zero]

\* Statistics.clear: the state of a fresh or cleared object.
Statistics_clear ==
    [count |-> Zero, eta |-> Zero, rho |-> Zero, tau |-> Zero, phi |-> Zero,
     min |-> NaN, max |-> NaN]

\* Statistics.push, the locals it computes before it assigns any field.
push_delta(self, val) == Sub(val, self.eta)

push_delta_n(self, val) == Div(push_delta(self, val), Add(self.count, One))

push_term(self, val) ==
    Mul(Mul(push_delta(self, val), push_delta_n(self, val)), self.count)

\* Statistics.push, self._phi += ...: count is the incremented count, rho and
\* tau are still the values from before the push.
push_phi(self, val, count) ==
    LET delta_n == push_delta_n(self, val)
        delta_n2 == Mul(delta_n, delta_n)
        term == push_term(self, val)
    IN  Add(self.phi,
            Sub(Add(Mul(Mul(term, delta_n2),
                        Add(Sub(Pow(count, 2), Mul(I(3), count)), I(3))),
                    Mul(Mul(I(6), delta_n2), self.rho)),
                Mul(Mul(I(4), delta_n), self.tau)))

\* Mutant: tau updated after rho, from the rho the push has already moved.
push_tau_after_rho(self, val, count) ==
    LET delta_n == push_delta_n(self, val)
        term == push_term(self, val)
    IN  Add(self.tau,
            Sub(Mul(Mul(term, delta_n), Sub(count, I(2))),
                Mul(Mul(I(3), delta_n), Add(self.rho, term))))

\* Statistics.push, self._tau += ...: rho is still the value from before the push.
push_tau(self, val, count) ==
    LET delta_n == push_delta_n(self, val)
        term == push_term(self, val)
    IN  Add(self.tau,
            Sub(Mul(Mul(term, delta_n), Sub(count, I(2))),
                Mul(Mul(I(3), delta_n), self.rho)))

\* Statistics.push: the state of self when the call ends.  With count = -1 (a
\* scaled accumulator) the divisor count + 1 of delta_n is zero, the checked
\* division raises ZeroDivisionError, and only min and max have been assigned.
Statistics_push(self, value) ==
    LET val == Rnd(I(value))
        count == Add(self.count, One)
        min == IF Eq(self.count, Zero) THEN val ELSE PyMin(self.min, val)
        max == IF Eq(self.count, Zero) THEN val ELSE PyMax(self.max, val)
    IN  IF Eq(count, Zero)
        THEN [self EXCEPT !.min = min, !.max = max]
        ELSE [count |-> count,
              eta |-> Add(self.eta, push_delta_n(self, val)),
              phi |-> push_phi(self, val, count),
              tau |-> push_tau(self, val, count),
              rho |-> Add(self.rho, push_term(self, val)),
              min |-> min,
              max |-> max]

\* Statistics.__iadd__, the locals it computes before it assigns any field.
iadd_sum_count(self, that) == Add(self.count, that.count)

iadd_delta(self, that) == Sub(that.eta, self.eta)

iadd_sum_eta(self, that) ==
    Div(Add(Mul(self.count, self.eta), Mul(that.count, that.eta)),
        iadd_sum_count(self, that))

\* Mutant: sum_rho without the term for the distance between the two means.
iadd_sum_rho_no_delta(self, that) == Add(self.rho, that.rho)

\* Mutant: the term for the distance between the means is subtracted.
iadd_sum_rho_minus(self, that) ==
    Sub(Add(self.rho, that.rho),
        Div(Mul(Mul(Pow(iadd_delta(self, that), 2), self.count), that.count),
            iadd_sum_count(self, that)))

iadd_sum_rho(self, that) ==
    LET delta2 == Pow(iadd_delta(self, that), 2)
    IN  Add(Add(self.rho, that.rho),
            Div(Mul(Mul(delta2, self.count), that.count),
                iadd_sum_count(self, that)))

\* Mutant: sum_tau with the two rho products added instead of subtracted.
iadd_sum_tau_plus(self, that) ==
    LET delta == iadd_delta(self, that)
        delta3 == Pow(delta, 3)
        sum_count == iadd_sum_count(self, that)
    IN  Add(Add(Add(self.tau, that.tau),
                Div(Mul(Mul(Mul(delta3, self.count), that.count),
                        Sub(self.count, that.count)),
                    Pow(sum_count, 2))),
            Div(Mul(Mul(I(3), delta),
                    Add(Mul(self.count, that.rho), Mul(that.count, self.rho))),
                sum_count))

iadd_sum_tau(self, that) ==
    LET delta == iadd_delta(self, that)
        delta3 == Pow(delta, 3)
        sum_count == iadd_sum_count(self, that)
    IN  Add(Add(Add(self.tau, that.tau),
                Div(Mul(Mul(Mul(delta3, self.count), that.count),
                        Sub(self.count, that.count)),
                    Pow(sum_count, 2))),
            Div(Mul(Mul(I(3), delta),
                    Sub(Mul(self.count, that.rho), Mul(that.count, self.rho))),
                sum_count))

\* Mutant: sum_phi with each rho weighted by its own count.
iadd_sum_phi_own_count(self, that) ==
    LET delta == iadd_delta(self, that)
        delta2 == Pow(delta, 2)
        delta4 == Pow(delta, 4)
        sum_count == iadd_sum_count(self, that)
    IN  Add(Add(Add(Add(self.phi, that.phi),
                    Div(Mul(Mul(Mul(delta4, self.count), that.count),
                            Add(Sub(Pow(self.count, 2),
                                    Mul(self.count, that.count)),
                                Pow(that.count, 2))),
                        Pow(sum_count, 3))),
                Div(Mul(Mul(I(6), delta2),
                        Add(Mul(Mul(self.count, self.count), self.rho),
                            Mul(Mul(that.count, that.count), that.rho))),
                    Pow(sum_count, 2))),
            Div(Mul(Mul(I(4), delta),
                    Sub(Mul(self.count, that.tau), Mul(that.count, self.tau))),
                sum_count))

iadd_sum_phi(self, that) ==
    LET delta == iadd_delta(self, that)
        delta2 == Pow(delta, 2)
        delta4 == Pow(delta, 4)
        sum_count == iadd_sum_count(self, that)
    IN  Add(Add(Add(Add(self.phi, that.phi),
                    Div(Mul(Mul(Mul(delta4, self.count), that.count),
                            Add(Sub(Pow(self.count, 2),
                                    Mul(self.count, that.count)),
                                Pow(that.count, 2))),
                        Pow(sum_count, 3))),
                Div(Mul(Mul(I(6), delta2),
                        Add(Mul(Mul(self.count, self.count), that.rho),
                            Mul(Mul(that.count, that.count), self.rho))),
                    Pow(sum_count, 2))),
            Div(Mul(Mul(I(4), delta),
                    Sub(Mul(self.count, that.tau), Mul(that.count, self.tau))),
                sum_count))

\* Statistics.__iadd__: the state of self after self += that.
Statistics_iadd(self, that) ==
    IF Eq(iadd_sum_count(self, that), Zero) THEN self
    ELSE [count |-> iadd_sum_count(self, that),
          eta |-> iadd_sum_eta(self, that),
          rho |-> iadd_sum_rho(self, that),
          tau |-> iadd_sum_tau(self, that),
          phi |-> iadd_sum_phi(self, that),
          min |-> IF Eq(self.count, Zero) THEN that.min
                  ELSE IF ~Eq(that.count, Zero) THEN PyMin(self.min, that.min)
                  ELSE self.min,
          max |-> IF Eq(self.count, Zero) THEN that.max
                  ELSE IF ~Eq(that.count, Zero) THEN PyMax(self.max, that.max)
                  ELSE self.max]

\* Mutant: count is stored before sum_eta is computed, and sum_eta reads the
\* count of that through the heap, after the store.
Statistics_iadd_at_reread(h, self, that) ==
    LET a == h[self]
        sum_count == iadd_sum_count(a, h[that])
    IN  IF Eq(sum_count, Zero) THEN h
        ELSE LET h1 == [h EXCEPT ![self].count = sum_count]
                 sum_eta == Div(Add(Mul(a.count, a.eta),
                                    Mul(h1[that].count, h1[that].eta)),
                                sum_count)
             IN  [h1 EXCEPT ![self] = [Statistics_iadd(a, h[that])
                                          EXCEPT !.eta = sum_eta]]

\* Statistics.__iadd__ on the objects of a heap, statement by statement: self and
\* that are names and may name one object (stats += stats).  The sums are locals
\* computed from both objects before the first store; min and max are stored
\* next, each from the heap as it then is; the five moments are stored last.
Statistics_iadd_at(h, self, that) ==
    LET sum_count == iadd_sum_count(h[self], h[that])
    IN  IF Eq(sum_count, Zero) THEN h
        ELSE LET sum_eta == iadd_sum_eta(h[self], h[that])
                 sum_rho == iadd_sum_rho(h[self], h[that])
                 sum_tau == iadd_sum_tau(h[self], h[that])
                 sum_phi == iadd_sum_phi(h[self], h[that])
                 h1 == IF Eq(h[self].count, Zero)
                       THEN [h EXCEPT ![self].min = h[that].min]
                       ELSE IF ~Eq(h[that].count, Zero)
                       THEN [h EXCEPT ![self].min =
                                 PyMin(h[self].min, h[that].min)]
                       ELSE h
                 h2 == IF Eq(h[self].count, Zero)
                       THEN [h1 EXCEPT ![self].max = h1[that].max]
                       ELSE IF ~Eq(h[that].count, Zero)
                       THEN [h1 EXCEPT ![self].max = PyMax(h1[self].max, h1[that].max)]
                       ELSE h1
             IN  [h2 EXCEPT ![self].count = sum_count, ![self].eta = sum_eta,
                            ![self].rho = sum_rho, ![self].tau = sum_tau,
                            ![self].phi = sum_phi]

\* Statistics.get_state / set_state / fromstate / copy: the seven fields, in order.
Statistics_get_state(self) ==
    <<self.count, self.eta, self.rho, self.tau, self.phi, self.min, self.max>>

Statistics_fromstate(state) ==
    [count |-> state[1], eta |-> state[2], rho |-> state[3], tau |-> state[4],
     phi |-> state[5], min |-> state[6], max |-> state[7]]

Statistics_copy(self) == Statistics_fromstate(Statistics_get_state(self))

\* Statistics.__richcmp__ with op == 2, "self.get_state() == other.get_state()":
\* each get_state boxes the seven doubles into new float objects, and two tuples
\* of distinct floats are equal when every pair of floats is (NaN equals nothing).
Statistics_eq(self, other) ==
    \A k \in 1..7 : Eq(Statistics_get_state(self)[k], Statistics_get_state(other)[k])

\* Statistics.__add__: the new object self + that.
Statistics_add(self, that) == Statistics_iadd(Statistics_copy(self), that)

\* Statistics.__init__(iterable): clear, then push each value in order.
RECURSIVE Statistics_init(_)
Statistics_init(iterable) ==
    IF iterable = <<>> THEN Statistics_clear
    ELSE Statistics_push(Statistics_init(SubSeq(iterable, 1, Len(iterable) - 1)),
                         iterable[Len(iterable)])

\* Statistics.mean and Statistics.variance
Statistics_mean(self) == self.eta
Statistics_variance(self, ddof) == Div(self.rho, Sub(self.count, ddof))

\* Statistics.variance, "self._rho / (self._count - ddof)": ddof is a Python
\* object, the division is Python's float division, and it raises
\* ZeroDivisionError when the divisor is zero.
variance_raises(self, ddof) == Eq(Sub(self.count, ddof), Zero)

\* Statistics.stddev, "self.variance(ddof) ** 0.5": raises when variance does;
\* the square root of a finite variance is a finite number.
stddev_raises(self, ddof) == variance_raises(self, ddof)
stddev_finite(self, ddof) == IsFinite(Statistics_variance(self, ddof))

\* Statistics.skewness, "(count ** 0.5) * tau / pow(rho, 1.5)": pow(rho, 1.5) is
\* zero exactly when rho is, the file sets no cdivision directive, and Cython's
\* checked division raises ZeroDivisionError on a zero divisor; the quotient is
\* finite when rho is positive and count is not negative.
skewness_raises(self) == Eq(self.rho, Zero)
skewness_finite(self) ==
    Gt(self.rho, Zero) /\ Ge(self.count, Zero) /\ IsFinite(self.tau)

\* Statistics.kurtosis, "count * phi / (rho * rho) - 3.0", with the same checked
\* division.
kurtosis_raises(self) == Eq(Mul(self.rho, self.rho), Zero)
Statistics_kurtosis(self) ==
    Sub(Div(Mul(self.count, self.phi), Mul(self.rho, self.rho)), I(3))

\* Mutant: *= that scales the mean with the other fields.
Statistics_imul_with_eta(self, that) ==
    [self EXCEPT !.count = Mul(self.count, that),
                 !.eta = Mul(self.eta, that),
                 !.rho = Mul(self.rho, that),
                 !.tau = Mul(self.tau, that),
                 !.phi = Mul(self.phi, that)]

\* Mutant: *= that leaves phi as it was.
Statistics_imul_keep_phi(self, that) ==
    [self EXCEPT !.count = Mul(self.count, that),
                 !.rho = Mul(self.rho, that),
                 !.tau = Mul(self.tau, that)]

\* Statistics.__imul__: the state of self after self *= that.
Statistics_imul(self, that) ==
    [self EXCEPT !.count = Mul(self.count, that),
                 !.rho = Mul(self.rho, that),
                 !.tau = Mul(self.tau, that),
                 !.phi = Mul(self.phi, that)]

\* Statistics.__mul__: the state of self * that.
Statistics_mul(self, that) == Statistics_imul(Statistics_copy(self), that)

(***************************************************************************)
(* ExponentialStatistics                                                   *)
(***************************************************************************)
\* Mutant: the bounds 0 and 1 themselves accepted.
check_weight_raises_strict(decay) == Gt(decay, One) \/ Lt(decay, Zero)

\* ExponentialStatistics._check_weight: TRUE when it raises ValueError.
check_weight_raises(decay) == Ge(decay, One) \/ Le(decay, Zero)

\* ExponentialStatistics.__init__ (no iterable): the fields of the new object.
ExponentialStatistics_init(decay, initial_mean, initial_variance) ==
    [mean |-> initial_mean, variance |-> initial_variance, decay |-> decay,
     live |-> TRUE]

\* ExponentialStatistics.clear: the fields of self when the call ends, by return
\* or by the ValueError of _check_weight; has_decay is "new_decay is not None".
ExponentialStatistics_clear(self, new_mean, new_var, has_decay, new_decay) ==
    [self EXCEPT !.mean = new_mean,
                 !.variance = new_var,
                 !.decay = IF has_decay /\ ~check_weight_raises(new_decay)
                           THEN new_decay ELSE self.decay]

\* ExponentialStatistics.change_decay: the fields of self when the call ends.
ExponentialStatistics_change_decay(self, new_decay) ==
    IF check_weight_raises(new_decay) THEN self
    ELSE [self EXCEPT !.decay = new_decay]

\* Mutant: the mean is updated first and the variance uses the new mean.
ExponentialStatistics_push_mean_first(self, value) ==
    LET alpha == Sub(One, self.decay)
        mean == Add(self.mean, Mul(alpha, Sub(value, self.mean)))
        diff == Sub(value, mean)
    IN  [self EXCEPT
             !.variance = Add(self.variance,
                              Mul(alpha, Sub(Mul(self.decay, Pow(diff, 2)),
                                             self.variance))),
             !.mean = mean]

\* Mutant: alpha is 1 + decay.
ExponentialStatistics_push_alpha_plus(self, value) ==
    LET alpha == Add(One, self.decay)
        diff == Sub(value, self.mean)
        incr == Mul(alpha, diff)
    IN  [self EXCEPT
             !.variance = Add(self.variance,
                              Mul(alpha, Sub(Mul(self.decay, Pow(diff, 2)),
                                             self.variance))),
             !.mean = Add(self.mean, incr)]

\* ExponentialStatistics.push
ExponentialStatistics_push(self, value) ==
    LET alpha == Sub(One, self.decay)
        diff == Sub(value, self.mean)
        incr == Mul(alpha, diff)
    IN  [self EXCEPT
             !.variance = Add(self.variance,
                              Mul(alpha, Sub(Mul(self.decay, Pow(diff, 2)),
                                             self.variance))),
             !.mean = Add(self.mean, incr)]

\* ExponentialStatistics.get_state and set_state: the snapshot is
\* (mean, variance, decay), and set_state assigns the three fields unchecked.
ExponentialStatistics_get_state(self) == <<self.mean, self.variance, self.decay>>

ExponentialStatistics_set_state(self, state) ==
    [self EXCEPT !.mean = state[1], !.variance = state[2], !.decay = state[3]]

\* ExponentialStatistics.fromstate: cls(0.0001), then set_state.
ExponentialStatistics_fromstate(state) ==
    ExponentialStatistics_set_state(
        ExponentialStatistics_init(Q(1, 10000), Zero, Zero), state)

\* ExponentialStatistics.copy
ExponentialStatistics_copy(self) ==
    ExponentialStatistics_fromstate(ExponentialStatistics_get_state(self))

\* Mutant: += that takes the decay of that with its mean and variance.
ExponentialStatistics_iadd_right_decay(self, that) ==
    [self EXCEPT !.mean = Add(self.mean, that.mean),
                 !.variance = Add(self.variance, that.variance),
                 !.decay = that.decay]

\* ExponentialStatistics.__iadd__: the state of self after self += that.
ExponentialStatistics_iadd(self, that) ==
    [self EXCEPT !.mean = Add(self.mean, that.mean),
                 !.variance = Add(self.variance, that.variance)]

\* ExponentialStatistics.__add__: the state of self + that.
ExponentialStatistics_add(self, that) ==
    ExponentialStatistics_iadd(ExponentialStatistics_copy(self), that)

\* ExponentialStatistics.__imul__: the state of self after self *= that.
ExponentialStatistics_imul(self, that) ==
    [self EXCEPT !.mean = Mul(self.mean, that),
                 !.variance = Mul(self.variance, that)]

\* ExponentialStatistics.__mul__: the state of self * that.
ExponentialStatistics_mul(self, that) ==
    ExponentialStatistics_imul(ExponentialStatistics_copy(self), that)

(***************************************************************************)
(* Regression                                                              *)
(***************************************************************************)
\* Regression.clear (and Regression.__init__ with no pairs).
Regression_clear ==
    [count |-> Zero, sxy |-> Zero,
     xstats |-> Statistics_clear, ystats |-> Statistics_clear]

\* Mutant: sxy updated from the deviations alone, without count / (count + 1).
push_sxy_unweighted(self, xcoord, ycoord) ==
    Add(self.sxy,
        Mul(Sub(Statistics_mean(self.xstats), xcoord),
            Sub(Statistics_mean(self.ystats), ycoord)))

\* Regression.push, self._sxy += ...: the means and the count are the values from
\* before the push.
push_sxy(self, xcoord, ycoord) ==
    Add(self.sxy,
        Div(Mul(Mul(Sub(Statistics_mean(self.xstats), xcoord),
                    Sub(Statistics_mean(self.ystats), ycoord)),
                self.count),
            Add(self.count, One)))

\* Regression.push; xcoord and ycoord are integers here.
Regression_push(self, xcoord, ycoord) ==
    [count |-> Add(self.count, One),
     sxy |-> push_sxy(self, Rnd(I(xcoord)), Rnd(I(ycoord))),
     xstats |-> Statistics_push(self.xstats, xcoord),
     ystats |-> Statistics_push(self.ystats, ycoord)]

\* Mutant: sum_sxy without the term for the distance between the means.
iadd_sum_sxy_no_delta(self, that) == Add(self.sxy, that.sxy)

\* Regression.__iadd__, sum_sxy.
iadd_sum_sxy(self, that) ==
    LET deltax == Sub(Statistics_mean(that.xstats), Statistics_mean(self.xstats))
        deltay == Sub(Statistics_mean(that.ystats), Statistics_mean(self.ystats))
    IN  Add(Add(self.sxy, that.sxy),
            Div(Mul(Mul(Mul(self.count, that.count), deltax), deltay),
                Add(self.count, that.count)))

\* Mutant: += that merges xstats, ystats and sxy and leaves count as it was.
Regression_iadd_stale_count(self, that) ==
    IF Eq(Add(self.count, that.count), Zero) THEN self
    ELSE [count |-> self.count,
          sxy |-> iadd_sum_sxy(self, that),
          xstats |-> Statistics_add(self.xstats, that.xstats),
          ystats |-> Statistics_add(self.ystats, that.ystats)]

\* Regression.__iadd__: the state of self after self += that.
Regression_iadd(self, that) ==
    IF Eq(Add(self.count, that.count), Zero) THEN self
    ELSE [count |-> Add(self.count, that.count),
          sxy |-> iadd_sum_sxy(self, that),
          xstats |-> Statistics_add(self.xstats, that.xstats),
          ystats |-> Statistics_add(self.ystats, that.ystats)]

\* Regression.__iadd__ on the objects of a heap: self and that are names and may
\* name one object (regr += regr).  sum_xstats and sum_ystats are new objects
\* (Statistics.__add__ works on a copy) and every sum is computed before the first
\* store.
Regression_iadd_at(h, self, that) ==
    IF Eq(Add(h[self].count, h[that].count), Zero) THEN h
    ELSE LET sum_count == Add(h[self].count, h[that].count)
             sum_xstats == Statistics_add(h[self].xstats, h[that].xstats)
             sum_ystats == Statistics_add(h[self].ystats, h[that].ystats)
             sum_sxy == iadd_sum_sxy(h[self], h[that])
         IN  [h EXCEPT ![self].count = sum_count, ![self].xstats = sum_xstats,
                          ![self].ystats = sum_ystats, ![self].sxy = sum_sxy]

\* Regression.get_state / set_state / fromstate / copy.
Regression_get_state(self) ==
    <<self.count, self.sxy, Statistics_get_state(self.xstats),
      Statistics_get_state(self.ystats)>>

Regression_fromstate(state) ==
    [count |-> state[1], sxy |-> state[2],
     xstats |-> Statistics_fromstate(state[3]),
     ystats |-> Statistics_fromstate(state[4])]

Regression_copy(self) == Regression_fromstate(Regression_get_state(self))

\* Regression.__richcmp__ with op == 2: equality of the nested snapshot tuples.
Regression_eq(self, other) ==
    /\ Eq(self.count, other.count)
    /\ Eq(self.sxy, other.sxy)
    /\ Statistics_eq(self.xstats, other.xstats)
    /\ Statistics_eq(self.ystats, other.ystats)

\* Regression.__len__ and Statistics.__len__: int(count), for a whole count.
Regression_len(self) == self.count.n \div self.count.d
Statistics_len(self) == self.count.n \div self.count.d

\* Regression.__add__: the new object self + that.
Regression_add(self, that) == Regression_iadd(Regression_copy(self), that)

\* Regression.__init__(iterable), the iterable given as indices of points.
RECURSIVE Regression_init(_)
Regression_init(iterable) ==
    IF iterable = <<>> THEN Regression_clear
    ELSE LET pt == Point(iterable[Len(iterable)])
         IN  Regression_push(
                 Regression_init(SubSeq(iterable, 1, Len(iterable) - 1)),
                 pt[1], pt[2])

\* Regression.slope and Regression.intercept
Regression_slope(self, ddof) ==
    LET sxx == Mul(Statistics_variance(self.xstats, ddof), Sub(self.count, ddof))
    IN  Div(self.sxy, sxx)

Regression_intercept(self, ddof) ==
    Sub(Statistics_mean(self.ystats),
        Mul(Regression_slope(self, ddof), Statistics_mean(self.xstats)))

(***************************************************************************)
(* Objects by reference.  A Statistics and an ExponentialStatistics hold   *)
(* doubles only; a Regression holds two doubles and the references         *)
(* _xstats and _ystats to the Statistics objects its constructor made.     *)
(* An operator that makes an object returns the new heap and the address.  *)
(***************************************************************************)
Names == {"a", "b"}
Kinds == {"Statistics", "Regression", "ExponentialStatistics"}
Addrs == 1..MaxAddr
Free == [free |-> TRUE]
IsFree(h, x) == h[x] = Free

\* the address the next object is made at
Alloc(h) ==
    CHOOSE x \in Addrs : IsFree(h, x) /\ \A y \in Addrs : IsFree(h, y) => x <= y

\* Statistics(): a new object, cleared
Statistics_new_ref(h) ==
    [heap |-> [h EXCEPT ![Alloc(h)] = Statistics_clear], ref |-> Alloc(h)]

Statistics_push_ref(h, self, value) ==
    [h EXCEPT ![self] = Statistics_push(h[self], value)]

Statistics_clear_ref(h, self) == [h EXCEPT ![self] = Statistics_clear]

\* Statistics.set_state: the seven fields of self are assigned
Statistics_set_state_ref(h, self, state) ==
    [h EXCEPT ![self] = Statistics_fromstate(state)]

\* Statistics.fromstate: stats = cls(); stats.set_state(state); return stats
Statistics_fromstate_ref(h, state) ==
    [heap |-> Statistics_set_state_ref(Statistics_new_ref(h).heap,
                                       Statistics_new_ref(h).ref, state),
     ref |-> Statistics_new_ref(h).ref]

\* Statistics.copy: self.fromstate(self.get_state())
Statistics_copy_ref(h, self) ==
    Statistics_fromstate_ref(h, Statistics_get_state(h[self]))

\* Statistics.__add__: sigma = self.copy(); sigma += that; return sigma
Statistics_add_ref(h, self, that) ==
    [heap |-> Statistics_iadd_at(Statistics_copy_ref(h, self).heap,
                                 Statistics_copy_ref(h, self).ref, that),
     ref |-> Statistics_copy_ref(h, self).ref]

Statistics_imul_ref(h, self, that) ==
    [h EXCEPT ![self] = Statistics_imul(h[self], that)]

\* Statistics.__mul__: sigma = self.copy(); sigma *= that; return sigma
Statistics_mul_ref(h, self, that) ==
    [heap |-> Statistics_imul_ref(Statistics_copy_ref(h, self).heap,
                                  Statistics_copy_ref(h, self).ref, that),
     ref |-> Statistics_copy_ref(h, self).ref]

\* The Regression at self with _xstats and _ystats followed.
Regression_deref(h, self) ==
    [count |-> h[self].count, sxy |-> h[self].sxy,
     xstats |-> h[h[self].xstats], ystats |-> h[h[self].ystats]]

\* Regression.clear: the owned Statistics are cleared in place, then
\* count = sxy = 0.
Regression_clear_ref(h, self) ==
    [Statistics_clear_ref(Statistics_clear_ref(h, h[self].xstats),
                          h[self].ystats)
        EXCEPT ![self].count = Zero, ![self].sxy = Zero]

\* Regression(): self._xstats = Statistics(); self._ystats = Statistics()
Regression_alloc_ref(h, xs, ys) ==
    [heap |-> [ys.heap EXCEPT ![Alloc(ys.heap)] =
                   [count |-> Zero, sxy |-> Zero,
                    xstats |-> xs.ref, ystats |-> ys.ref]],
     ref |-> Alloc(ys.heap)]

\* Regression(): two new Statistics, then clear
Regression_new_ref(h) ==
    [heap |-> Regression_clear_ref(
                  Regression_alloc_ref(h, Statistics_new_ref(h),
                      Statistics_new_ref(Statistics_new_ref(h).heap)).heap,
                  Regression_alloc_ref(h, Statistics_new_ref(h),
                      Statistics_new_ref(Statistics_new_ref(h).heap)).ref),
     ref |-> Regression_alloc_ref(h, Statistics_new_ref(h),
                 Statistics_new_ref(Statistics_new_ref(h).heap)).ref]

\* Regression.push: sxy from the means and the count before the push, then the
\* owned Statistics are pushed into in place, then count.
Regression_push_ref(h, self, xcoord, ycoord) ==
    [Statistics_push_ref(
         Statistics_push_ref(
             [h EXCEPT ![self].sxy = push_sxy(Regression_deref(h, self),
                                              Rnd(I(xcoord)), Rnd(I(ycoord)))],
             h[self].xstats, xcoord),
         h[self].ystats, ycoord)
        EXCEPT ![self].count = Add(h[self].count, One)]

\* Regression.set_state: count and sxy assigned, the owned Statistics set in place
Regression_set_state_ref(h, self, state) ==
    Statistics_set_state_ref(
        Statistics_set_state_ref(
            [h EXCEPT ![self].count = state[1], ![self].sxy = state[2]],
            h[self].xstats, state[3]),
        h[self].ystats, state[4])

\* Regression.fromstate: regr = cls(); regr.set_state(state); return regr
Regression_fromstate_ref(h, state) ==
    [heap |-> Regression_set_state_ref(Regression_new_ref(h).heap,
                                       Regression_new_ref(h).ref, state),
     ref |-> Regression_new_ref(h).ref]

\* Mutant: a copy that holds the xstats and ystats of self.
Regression_copy_ref_shallow(h, self) ==
    [heap |-> [h EXCEPT ![Alloc(h)] = h[self]], ref |-> Alloc(h)]

\* Regression.copy: self.fromstate(self.get_state())
Regression_copy_ref(h, self) ==
    Regression_fromstate_ref(h, Regression_get_state(Regression_deref(h, self)))

\* Regression.__iadd__, the stores: self holds the new objects afterwards.
Regression_iadd_store(self, sum_count, sum_xstats, sum_ystats, sum_sxy) ==
    [sum_ystats.heap EXCEPT ![self].count = sum_count,
                            ![self].xstats = sum_xstats.ref,
                            ![self].ystats = sum_ystats.ref,
                            ![self].sxy = sum_sxy]

\* Regression.__iadd__, after sum_xstats: sum_ystats is made next
Regression_iadd_sums(h, self, that, sum_xstats) ==
    Regression_iadd_store(self, Add(h[self].count, h[that].count), sum_xstats,
        Statistics_add_ref(sum_xstats.heap, h[self].ystats, h[that].ystats),
        iadd_sum_sxy(Regression_deref(h, self), Regression_deref(h, that)))

\* Regression.__iadd__: sum_xstats and sum_ystats are the new objects
\* Statistics.__add__ returns, and self holds them afterwards.
Regression_iadd_ref(h, self, that) ==
    IF Eq(Add(h[self].count, h[that].count), Zero) THEN h
    ELSE Regression_iadd_sums(h, self, that,
             Statistics_add_ref(h, h[self].xstats, h[that].xstats))

\* Regression.__add__: sigma = self.copy(); sigma += that; return sigma
Regression_add_ref(h, self, that) ==
    [heap |-> Regression_iadd_ref(Regression_copy_ref(h, self).heap,
                                  Regression_copy_ref(h, self).ref, that),
     ref |-> Regression_copy_ref(h, self).ref]

\* ExponentialStatistics(decay)
ExponentialStatistics_new_ref(h, decay) ==
    [heap |-> [h EXCEPT ![Alloc(h)] =
                   ExponentialStatistics_init(decay, Zero, Zero)],
     ref |-> Alloc(h)]

ExponentialStatistics_push_ref(h, self, value) ==
    [h EXCEPT ![self] = ExponentialStatistics_push(h[self], value)]

ExponentialStatistics_clear_ref(h, self) ==
    [h EXCEPT ![self] = ExponentialStatistics_clear(h[self], Zero, Zero, FALSE, NaN)]

\* ExponentialStatistics.fromstate: stats = cls(0.0001); stats.set_state(state)
ExponentialStatistics_fromstate_ref(h, state) ==
    [heap |-> [ExponentialStatistics_new_ref(h, Q(1, 10000)).heap
                   EXCEPT ![Alloc(h)] = ExponentialStatistics_set_state(@, state)],
     ref |-> ExponentialStatistics_new_ref(h, Q(1, 10000)).ref]

ExponentialStatistics_copy_ref(h, self) ==
    ExponentialStatistics_fromstate_ref(h, ExponentialStatistics_get_state(h[self]))

ExponentialStatistics_iadd_ref(h, self, that) ==
    [h EXCEPT ![self] = ExponentialStatistics_iadd(h[self], h[that])]

ExponentialStatistics_add_ref(h, self, that) ==
    [heap |-> ExponentialStatistics_iadd_ref(
                  ExponentialStatistics_copy_ref(h, self).heap,
                  ExponentialStatistics_copy_ref(h, self).ref, that),
     ref |-> ExponentialStatistics_copy_ref(h, self).ref]

ExponentialStatistics_imul_ref(h, self, that) ==
    [h EXCEPT ![self] = ExponentialStatistics_imul(h[self], that)]

ExponentialStatistics_mul_ref(h, self, that) ==
    [heap |-> ExponentialStatistics_imul_ref(
                  ExponentialStatistics_copy_ref(h, self).heap,
                  ExponentialStatistics_copy_ref(h, self).ref, that),
     ref |-> ExponentialStatistics_copy_ref(h, self).ref]

\* The statements of a caller on objects of one class, by the class.
Op_new(h) ==
    CASE kind = "Statistics" -> Statistics_new_ref(h)
      [] kind = "Regression" -> Regression_new_ref(h)
      [] kind = "ExponentialStatistics" ->
             ExponentialStatistics_new_ref(h, Q(1, DecayDen))

\* k selects the value pushed: k, Point(k), or k as a double
Op_push(h, self, k) ==
    CASE kind = "Statistics" -> Statistics_push_ref(h, self, k)
      [] kind = "Regression" ->
             Regression_push_ref(h, self, Point(k)[1], Point(k)[2])
      [] kind = "ExponentialStatistics" ->
             ExponentialStatistics_push_ref(h, self, I(k))

Op_clear(h, self) ==
    CASE kind = "Statistics" -> Statistics_clear_ref(h, self)
      [] kind = "Regression" -> Regression_clear_ref(h, self)
      [] kind = "ExponentialStatistics" -> ExponentialStatistics_clear_ref(h, self)

Op_copy(h, self) ==
    CASE kind = "Statistics" -> Statistics_copy_ref(h, self)
      [] kind = "Regression" -> Regression_copy_ref(h, self)
      [] kind = "ExponentialStatistics" -> ExponentialStatistics_copy_ref(h, self)

Op_iadd(h, self, that) ==
    CASE kind = "Statistics" -> Statistics_iadd_at(h, self, that)
      [] kind = "Regression" -> Regression_iadd_ref(h, self, that)
      [] kind = "ExponentialStatistics" ->
             ExponentialStatistics_iadd_ref(h, self, that)

Op_add(h, self, that) ==
    CASE kind = "Statistics" -> Statistics_add_ref(h, self, that)
      [] kind = "Regression" -> Regression_add_ref(h, self, that)
      [] kind = "ExponentialStatistics" ->
             ExponentialStatistics_add_ref(h, self, that)

\* Regression has no scaling
Op_imul(h, self, that) ==
    CASE kind = "Statistics" -> Statistics_imul_ref(h, self, that)
      [] kind = "ExponentialStatistics" ->
             ExponentialStatistics_imul_ref(h, self, that)

Op_mul(h, self, that) ==
    CASE kind = "Statistics" -> Statistics_mul_ref(h, self, that)
      [] kind = "ExponentialStatistics" ->
             ExponentialStatistics_mul_ref(h, self, that)

\* The addresses an object occupies: its own, and for a Regression those of the
\* Statistics it holds.
Cells(h, x) ==
    IF kind = "Regression" THEN {x, h[x].xstats, h[x].ystats} ELSE {x}

\* Objects no name leads to are reclaimed.
Collect(h, e) ==
    [x \in Addrs |->
        IF \E n \in Names : x \in Cells(h, e[n]) THEN h[x] ELSE Free]

\* The object a name is bound to, with the Statistics a Regression holds.
Value(h, e, n) ==
    IF kind = "Regression" THEN Regression_deref(h, e[n]) ELSE h[e[n]]

(***************************************************************************)
(* ExponentialMovingStatistics in time-based mode and                      *)
(* ExponentialMovingCovariance.  The clock is a parameter of every         *)
(* operation that reads it.                                                *)
(***************************************************************************)
\* an unset delay or time
None == 0 - 1
TimeNames == {"a", "b", "c"}
\* the value pushed into the time-based objects
TimeVals == {One}
Delays == 1..MaxDelay

\* The decay of one time unit, and the decay an object of a delay is made
\* with: after delay time units the effective decay is that decay.
UnitDecay == Q(1, 2)
DecayOf(delay) == IF delay = None THEN UnitDecay ELSE QPow(UnitDecay, delay)

is_time_based(self) == self.delay # None

\* the delay-th root of a decay 1/n
Root(decay, delay) ==
    CHOOSE r \in {Q(1, k) : k \in 1..decay.d} : QPow(r, delay) = decay

\* decay ** (elapsed / delay)
effective_decay(decay, elapsed, delay) == Pow(Root(decay, delay), elapsed)

\* ExponentialMovingStatistics(decay, mean, variance, delay) at time t
ExponentialMovingStatistics_init(decay, mean, variance, delay, t) ==
    [decay |-> decay, mean |-> mean, variance |-> variance, delay |-> delay,
     referenceTimestamp |-> IF delay = None THEN None ELSE t,
     frozenElapsed |-> None, isFrozen |-> FALSE]

\* elapsed = now - referenceTimestamp, or the value frozen at freeze()
elapsed_time(self, t) ==
    IF self.isFrozen THEN self.frozenElapsed ELSE t - self.referenceTimestamp

\* The decay a push at time t uses.
push_decay(self, t) ==
    IF is_time_based(self)
    THEN effective_decay(self.decay, elapsed_time(self, t), self.delay)
    ELSE self.decay

\* The fixed-ratio update with decay in place of self.decay.
fixed_ratio_push(self, value, decay) ==
    [ExponentialStatistics_push([self EXCEPT !.decay = decay], value)
        EXCEPT !.decay = self.decay]

\* Mutant: a push that leaves the clock where it was.
ExponentialMovingStatistics_push_no_rebase(self, value, t) ==
    fixed_ratio_push(self, value, push_decay(self, t))

\* ExponentialMovingStatistics.push at time t
ExponentialMovingStatistics_push(self, value, t) ==
    IF is_time_based(self)
    THEN [fixed_ratio_push(self, value, push_decay(self, t))
             EXCEPT !.referenceTimestamp = t]
    ELSE fixed_ratio_push(self, value, self.decay)

\* Mutant: freeze() captures nothing of the time that passed.
ExponentialMovingStatistics_freeze_zero(self, t) ==
    [self EXCEPT !.frozenElapsed = 0, !.isFrozen = TRUE]

\* ExponentialMovingStatistics.freeze at time t
ExponentialMovingStatistics_freeze(self, t) ==
    [self EXCEPT !.frozenElapsed = t - self.referenceTimestamp,
                 !.isFrozen = TRUE]

\* Mutant: unfreeze() restarts the clock at the time of the call.
ExponentialMovingStatistics_unfreeze_restart(self, t) ==
    [self EXCEPT !.referenceTimestamp = t, !.frozenElapsed = None,
                 !.isFrozen = FALSE]

\* ExponentialMovingStatistics.unfreeze at time t
ExponentialMovingStatistics_unfreeze(self, t) ==
    [self EXCEPT !.referenceTimestamp = t - self.frozenElapsed,
                 !.frozenElapsed = None, !.isFrozen = FALSE]

\* The clock anchor reset to t, and the frozen state cleared.
clear_timer(self, t) ==
    [self EXCEPT !.referenceTimestamp = t, !.frozenElapsed = None,
                 !.isFrozen = FALSE]

\* ExponentialMovingStatistics.clear() at time t
ExponentialMovingStatistics_clear(self, t) ==
    IF is_time_based(self)
    THEN clear_timer([self EXCEPT !.mean = Zero, !.variance = Zero], t)
    ELSE [self EXCEPT !.mean = Zero, !.variance = Zero]

\* ExponentialMovingStatistics.__iadd__: the clock state of self is kept
ExponentialMovingStatistics_iadd(self, that) ==
    [self EXCEPT !.mean = Add(self.mean, that.mean),
                 !.variance = Add(self.variance, that.variance)]

\* Mutant: a + b keeps the clock anchor of a.
ExponentialMovingStatistics_add_keep_clock(self, that, t, thaw) ==
    ExponentialMovingStatistics_iadd(self, that)

\* ExponentialMovingStatistics.__add__ at time t: the copy of self, merged, its
\* clock reset when it is time-based.  Whether the reset also ends a freeze
\* of the copy is left open (thaw).
ExponentialMovingStatistics_add(self, that, t, thaw) ==
    IF ~is_time_based(self) THEN ExponentialMovingStatistics_iadd(self, that)
    ELSE IF thaw THEN clear_timer(ExponentialMovingStatistics_iadd(self, that), t)
    ELSE [ExponentialMovingStatistics_iadd(self, that)
             EXCEPT !.referenceTimestamp = t]

\* ExponentialMovingCovariance(decay, delay) at time t
ExponentialMovingCovariance_init(decay, delay, t) ==
    [xmoment |-> ExponentialMovingStatistics_init(decay, Zero, Zero, delay, t),
     ymoment |-> ExponentialMovingStatistics_init(decay, Zero, Zero, delay, t),
     covariance |-> Zero]

\* ExponentialMovingCovariance.push, the covariance: the effective decay and
\* the means of before the push.
push_covariance(self, x, y, decay) ==
    Add(self.covariance,
        Mul(Sub(One, decay),
            Sub(Mul(Mul(decay, Sub(x, self.xmoment.mean)),
                    Sub(y, self.ymoment.mean)),
                self.covariance)))

\* Mutant: the clock is read again for ymoment, one time unit later.
ExponentialMovingCovariance_push_resample(self, x, y, t) ==
    [covariance |-> push_covariance(self, x, y, push_decay(self.xmoment, t)),
     xmoment |-> ExponentialMovingStatistics_push(self.xmoment, x, t),
     ymoment |-> ExponentialMovingStatistics_push(self.ymoment, y, t + 1)]

\* ExponentialMovingCovariance.push at time t: the clock is read once
ExponentialMovingCovariance_push(self, x, y, t) ==
    [covariance |-> push_covariance(self, x, y, push_decay(self.xmoment, t)),
     xmoment |-> ExponentialMovingStatistics_push(self.xmoment, x, t),
     ymoment |-> ExponentialMovingStatistics_push(self.ymoment, y, t)]

\* no object, and the ghost of no object
NoMoment == [live |-> FALSE]
NoGhost == [anchor |-> None, paused |-> FALSE, captured |-> None,
            resumed |-> None, event |-> "none"]

\* The ghost of an object after a call at time t that sets its clock anchor
\* (construction, push, clear, a + b): paused records a freeze() still in
\* force or made since.
Anchored(g, self, t, event) ==
    [g EXCEPT !.anchor = t, !.paused = self.isFrozen, !.event = event]

(***************************************************************************)
(* Initial state: every object freshly constructed, no                     *)
(* ExponentialStatistics object constructed yet.                           *)
(***************************************************************************)
NoObj == [mean |-> NaN, variance |-> NaN, decay |-> NaN, live |-> FALSE]

InitCaller ==
    /\ stats = [o \in Objs |-> Statistics_clear]
    /\ hist = [o \in Objs |-> <<>>]
    /\ sop = [name |-> "none", o |-> "", l |-> "", r |-> ""]
    /\ scaled = [o \in Objs |-> FALSE]
    /\ regr = [o \in RObjs |-> Regression_clear]
    /\ rhist = [o \in RObjs |-> <<>>]
    /\ rop = [name |-> "none", o |-> "", l |-> "", r |-> ""]
    /\ es = NoObj
    /\ err = "ok"
    /\ eskept = TRUE
    /\ esop = [name |-> "none", has_decay |-> FALSE, decay |-> NaN]
    /\ npush = 0
    /\ nmerge = 0

\* no objects by reference
InitNoHeap ==
    /\ kind = "none"
    /\ heap = <<>>
    /\ env = <<>>
    /\ hop = [name |-> "none", o |-> "", l |-> "", r |-> ""]
    /\ hops = 0

\* no time-based objects
\* No call yet.  v and w are the values pushed, since the time from the ghost
\* anchor of the object to the call.
NoCall == [name |-> "none", o |-> "", l |-> "", r |-> "", v |-> Zero, w |-> Zero,
           since |-> None]

InitNoTime ==
    /\ now = 0
    /\ ems = [o \in TimeNames |-> NoMoment]
    /\ ecov = NoMoment
    /\ top = NoCall
    /\ tg = [o \in TimeNames |-> NoGhost]
    /\ tops = 0
    /\ tpush = 0

InitObjects == InitCaller /\ InitNoHeap /\ InitNoTime

Init == arith = "exact" /\ InitObjects
InitFloat == arith = "float" /\ InitObjects

(***************************************************************************)
(* Statistics operations of a caller holding the objects a and b.         *)
(***************************************************************************)
\* Ghost bookkeeping: sorted sequences of integers as multisets.
RECURSIVE Insert(_, _)
Insert(s, v) ==
    IF s = <<>> THEN <<v>>
    ELSE IF v <= Head(s) THEN <<v>> \o s
    ELSE <<Head(s)>> \o Insert(Tail(s), v)

RECURSIVE Union(_, _)
Union(s, t) == IF t = <<>> THEN s ELSE Union(Insert(s, Head(t)), Tail(t))

RECURSIVE SumLen(_, _)
SumLen(h, S) ==
    IF S = {} THEN 0
    ELSE LET o == CHOOSE x \in S : TRUE IN Len(h[o]) + SumLen(h, S \ {o})

\* o.push(v)
StatsPush(o, v) ==
    /\ SumLen(hist, Objs) < MaxTotal
    /\ stats' = [stats EXCEPT ![o] = Statistics_push(stats[o], v)]
    /\ hist' = [hist EXCEPT ![o] = Insert(hist[o], v)]
    /\ sop' = [name |-> "push", o |-> o, l |-> "", r |-> ""]
    /\ UNCHANGED <<scaled, arith, timeVars, heapVars, regrVars, expVars>>

\* o += p (p may be o itself)
StatsIAdd(o, p) ==
    /\ SumLen(hist, Objs) + Len(hist[p]) <= MaxTotal
    /\ stats' = Statistics_iadd_at(stats, o, p)
    /\ hist' = [hist EXCEPT ![o] = Union(hist[o], hist[p])]
    /\ sop' = [name |-> "iadd", o |-> o, l |-> o, r |-> p]
    /\ scaled' = [scaled EXCEPT ![o] = scaled[o] \/ scaled[p]]
    /\ UNCHANGED <<arith, timeVars, heapVars, regrVars, expVars>>

\* o = p + q
StatsAdd(o, p, q) ==
    /\ SumLen(hist, Objs \ {o}) + Len(hist[p]) + Len(hist[q]) <= MaxTotal
    /\ stats' = [stats EXCEPT ![o] = Statistics_add(stats[p], stats[q])]
    /\ hist' = [hist EXCEPT ![o] = Union(hist[p], hist[q])]
    /\ sop' = [name |-> "add", o |-> o, l |-> p, r |-> q]
    /\ scaled' = [scaled EXCEPT ![o] = scaled[p] \/ scaled[q]]
    /\ UNCHANGED <<arith, timeVars, heapVars, regrVars, expVars>>

\* o.clear()
StatsClear(o) ==
    /\ stats' = [stats EXCEPT ![o] = Statistics_clear]
    /\ hist' = [hist EXCEPT ![o] = <<>>]
    /\ sop' = [name |-> "clear", o |-> o, l |-> "", r |-> ""]
    /\ scaled' = [scaled EXCEPT ![o] = FALSE]
    /\ UNCHANGED <<arith, timeVars, heapVars, regrVars, expVars>>

\* o *= f.  A scaling is offered while no object the caller holds has one in it,
\* which keeps the counts and the moments bounded.
StatsIMul(o, f) ==
    /\ \A x \in Objs : ~scaled[x]
    /\ stats' = [stats EXCEPT ![o] = Statistics_imul(stats[o], f)]
    /\ sop' = [name |-> "imul", o |-> o, l |-> o, r |-> ""]
    /\ scaled' = [scaled EXCEPT ![o] = TRUE]
    /\ UNCHANGED <<hist, arith, timeVars, heapVars, regrVars, expVars>>

\* o = p * f
StatsMul(o, p, f) ==
    /\ \A x \in Objs : ~scaled[x]
    /\ SumLen(hist, Objs \ {o}) + Len(hist[p]) <= MaxTotal
    /\ stats' = [stats EXCEPT ![o] = Statistics_mul(stats[p], f)]
    /\ hist' = [hist EXCEPT ![o] = hist[p]]
    /\ sop' = [name |-> "mul", o |-> o, l |-> p, r |-> ""]
    /\ scaled' = [scaled EXCEPT ![o] = TRUE]
    /\ UNCHANGED <<arith, timeVars, heapVars, regrVars, expVars>>

NextStats ==
    \/ \E o \in Objs, v \in Vals : StatsPush(o, v)
    \/ \E o \in Objs, p \in Objs : StatsIAdd(o, p)
    \/ \E o \in Objs, p \in Objs, q \in Objs : StatsAdd(o, p, q)
    \/ \E o \in Objs : StatsClear(o)

NextPush ==
    \/ \E o \in Objs, v \in Vals : StatsPush(o, v)
    \/ \E o \in Objs : StatsClear(o)

\* push, +=, clear, and the scaling *=.
NextScale ==
    \/ \E o \in Objs, v \in Vals : StatsPush(o, v)
    \/ \E o \in Objs, p \in Objs : StatsIAdd(o, p)
    \/ \E o \in Objs : StatsClear(o)
    \/ \E o \in Objs, f \in Factors : StatsIMul(o, f)

\* push, clear, and the scalings *= and *.
NextMul ==
    \/ \E o \in Objs, v \in Vals : StatsPush(o, v)
    \/ \E o \in Objs : StatsClear(o)
    \/ \E o \in Objs, f \in Factors : StatsIMul(o, f)
    \/ \E o \in Objs, p \in Objs, f \in Factors : StatsMul(o, p, f)

SpecStats == Init /\ [][NextStats]_vars
SpecScale == Init /\ [][NextScale]_vars
SpecMul == Init /\ [][NextMul]_vars
SpecStatsFloat == InitFloat /\ [][NextStats]_vars
SpecPush == Init /\ [][NextPush]_vars

(***************************************************************************)
(* Regression operations of a caller holding the objects ra and rb.        *)
(***************************************************************************)
\* o.push(x, y) with (x, y) = Point(i)
RegrPush(o, i) ==
    /\ SumLen(rhist, RObjs) < MaxPairs
    /\ regr' = [regr EXCEPT ![o] = Regression_push(regr[o], Point(i)[1], Point(i)[2])]
    /\ rhist' = [rhist EXCEPT ![o] = Insert(rhist[o], i)]
    /\ rop' = [name |-> "push", o |-> o, l |-> "", r |-> ""]
    /\ UNCHANGED <<arith, timeVars, heapVars, statsVars, expVars>>

\* o += p (p may be o itself)
RegrIAdd(o, p) ==
    /\ SumLen(rhist, RObjs) + Len(rhist[p]) <= MaxPairs
    /\ regr' = Regression_iadd_at(regr, o, p)
    /\ rhist' = [rhist EXCEPT ![o] = Union(rhist[o], rhist[p])]
    /\ rop' = [name |-> "iadd", o |-> o, l |-> o, r |-> p]
    /\ UNCHANGED <<arith, timeVars, heapVars, statsVars, expVars>>

\* o = p + q
RegrAdd(o, p, q) ==
    /\ SumLen(rhist, RObjs \ {o}) + Len(rhist[p]) + Len(rhist[q]) <= MaxPairs
    /\ regr' = [regr EXCEPT ![o] = Regression_add(regr[p], regr[q])]
    /\ rhist' = [rhist EXCEPT ![o] = Union(rhist[p], rhist[q])]
    /\ rop' = [name |-> "add", o |-> o, l |-> p, r |-> q]
    /\ UNCHANGED <<arith, timeVars, heapVars, statsVars, expVars>>

\* o.clear(); the ghost notes in r whether o held pairs when it was cleared.
RegrClear(o) ==
    /\ regr' = [regr EXCEPT ![o] = Regression_clear]
    /\ rhist' = [rhist EXCEPT ![o] = <<>>]
    /\ rop' = [name |-> "clear", o |-> o, l |-> "",
               r |-> IF rhist[o] # <<>> THEN "nonempty" ELSE ""]
    /\ UNCHANGED <<arith, timeVars, heapVars, statsVars, expVars>>

\* o = p.copy()
RegrCopy(o, p) ==
    /\ o # p
    /\ SumLen(rhist, RObjs \ {o}) + Len(rhist[p]) <= MaxPairs
    /\ regr' = [regr EXCEPT ![o] = Regression_copy(regr[p])]
    /\ rhist' = [rhist EXCEPT ![o] = rhist[p]]
    /\ rop' = [name |-> "copy", o |-> o, l |-> p, r |-> ""]
    /\ UNCHANGED <<arith, timeVars, heapVars, statsVars, expVars>>

NextRegr ==
    \/ \E o \in RObjs, i \in PointIds : RegrPush(o, i)
    \/ \E o \in RObjs, p \in RObjs : RegrIAdd(o, p)
    \/ \E o \in RObjs, p \in RObjs, q \in RObjs : RegrAdd(o, p, q)
    \/ \E o \in RObjs : RegrClear(o)
    \/ \E o \in RObjs, p \in RObjs : RegrCopy(o, p)

SpecRegr == Init /\ [][NextRegr]_vars

(***************************************************************************)
(* ExponentialStatistics operations of a caller holding one name, es.      *)
(***************************************************************************)
\* es = ExponentialStatistics(decay, initial_mean, initial_variance); when the
\* constructor raises, the name keeps what it was bound to.
ExpInit(decay, initial_mean, initial_variance) ==
    /\ esop' = [name |-> "init", has_decay |-> TRUE, decay |-> decay]
    /\ IF check_weight_raises(decay)
       THEN /\ err' = "ValueError"
            /\ eskept' = TRUE
            /\ UNCHANGED <<es, npush, nmerge>>
       ELSE /\ err' = "ok"
            /\ es' = ExponentialStatistics_init(decay, initial_mean, initial_variance)
            /\ eskept' = (es' = es)
            /\ npush' = 0
            /\ nmerge' = 0
    /\ UNCHANGED <<arith, timeVars, heapVars, statsVars, regrVars>>

\* es.push(value)
ExpPush(value) ==
    /\ es.live
    /\ npush < MaxExpPush
    /\ esop' = [name |-> "push", has_decay |-> FALSE, decay |-> NaN]
    /\ es' = ExponentialStatistics_push(es, value)
    /\ eskept' = (es' = es)
    /\ err' = "ok"
    /\ npush' = npush + 1
    /\ UNCHANGED <<nmerge, arith, timeVars, heapVars, statsVars, regrVars>>

\* es.clear(new_mean, new_var) and es.clear(new_mean, new_var, new_decay)
ExpClear(new_mean, new_var, has_decay, new_decay) ==
    /\ es.live
    /\ has_decay \/ IsNaN(new_decay)
    /\ esop' = [name |-> "clear", has_decay |-> has_decay, decay |-> new_decay]
    /\ es' = ExponentialStatistics_clear(es, new_mean, new_var, has_decay, new_decay)
    /\ eskept' = (es' = es)
    /\ err' = IF has_decay /\ check_weight_raises(new_decay) THEN "ValueError" ELSE "ok"
    /\ npush' = 0
    /\ nmerge' = 0
    /\ UNCHANGED <<arith, timeVars, heapVars, statsVars, regrVars>>

\* es.change_decay(new_decay)
ExpChangeDecay(new_decay) ==
    /\ es.live
    /\ esop' = [name |-> "change_decay", has_decay |-> TRUE, decay |-> new_decay]
    /\ es' = ExponentialStatistics_change_decay(es, new_decay)
    /\ eskept' = (es' = es)
    /\ err' = IF check_weight_raises(new_decay) THEN "ValueError" ELSE "ok"
    /\ UNCHANGED <<npush, nmerge, arith, timeVars, heapVars, statsVars, regrVars>>

NextExp ==
    \/ \E d \in Decays, m \in ExpVals, v \in ExpVals : ExpInit(d, m, v)
    \/ \E v \in ExpVals : ExpPush(v)
    \/ \E m \in ExpVals, v \in ExpVals, h \in BOOLEAN, d \in Decays :
           ExpClear(m, v, h, d)
    \/ \E d \in Decays : ExpChangeDecay(d)

SpecExp == Init /\ [][NextExp]_vars

\* The right operands offered to a merge: freshly constructed objects, with
\* decays k/(DecayDen + 1) that the constructor accepts and that differ from
\* the decays k/DecayDen of the left operand.  The snapshots offered to
\* set_state and fromstate: every triple.  The factors offered to a scaling.
OperandDecays == {Q(k, DecayDen + 1) : k \in 1..DecayDen}
ExpOperands ==
    {ExponentialStatistics_init(d, m, v) :
         d \in {x \in OperandDecays : ~check_weight_raises(x)},
         m \in ExpVals, v \in ExpVals}
ExpStates == {<<m, v, d>> : m \in ExpVals, v \in ExpVals, d \in Decays}
ExpFactors == {Q(k, DecayDen) : k \in 0..DecayDen}

\* es += that
ExpIAdd(that) ==
    /\ es.live
    /\ nmerge < MaxExpMerge
    /\ esop' = [name |-> "iadd", has_decay |-> FALSE, decay |-> that.decay]
    /\ es' = ExponentialStatistics_iadd(es, that)
    /\ eskept' = (es' = es)
    /\ err' = "ok"
    /\ nmerge' = nmerge + 1
    /\ UNCHANGED <<npush, arith, timeVars, heapVars, statsVars, regrVars>>

\* es = es + that
ExpAdd(that) ==
    /\ es.live
    /\ nmerge < MaxExpMerge
    /\ esop' = [name |-> "add", has_decay |-> FALSE, decay |-> that.decay]
    /\ es' = ExponentialStatistics_add(es, that)
    /\ eskept' = (es' = es)
    /\ err' = "ok"
    /\ nmerge' = nmerge + 1
    /\ UNCHANGED <<npush, arith, timeVars, heapVars, statsVars, regrVars>>

\* es *= f
ExpIMul(f) ==
    /\ es.live
    /\ nmerge < MaxExpMerge
    /\ esop' = [name |-> "imul", has_decay |-> FALSE, decay |-> NaN]
    /\ es' = ExponentialStatistics_imul(es, f)
    /\ eskept' = (es' = es)
    /\ err' = "ok"
    /\ nmerge' = nmerge + 1
    /\ UNCHANGED <<npush, arith, timeVars, heapVars, statsVars, regrVars>>

\* es = es * f
ExpMul(f) ==
    /\ es.live
    /\ nmerge < MaxExpMerge
    /\ esop' = [name |-> "mul", has_decay |-> FALSE, decay |-> NaN]
    /\ es' = ExponentialStatistics_mul(es, f)
    /\ eskept' = (es' = es)
    /\ err' = "ok"
    /\ nmerge' = nmerge + 1
    /\ UNCHANGED <<npush, arith, timeVars, heapVars, statsVars, regrVars>>

\* es = es.copy()
ExpCopy ==
    /\ es.live
    /\ esop' = [name |-> "copy", has_decay |-> FALSE, decay |-> NaN]
    /\ es' = ExponentialStatistics_copy(es)
    /\ eskept' = (es' = es)
    /\ err' = "ok"
    /\ UNCHANGED <<npush, nmerge, arith, timeVars, heapVars, statsVars, regrVars>>

\* es.set_state(state)
ExpSetState(state) ==
    /\ es.live
    /\ esop' = [name |-> "set_state", has_decay |-> TRUE, decay |-> state[3]]
    /\ es' = ExponentialStatistics_set_state(es, state)
    /\ eskept' = (es' = es)
    /\ err' = "ok"
    /\ npush' = 0
    /\ nmerge' = 0
    /\ UNCHANGED <<arith, timeVars, heapVars, statsVars, regrVars>>

\* es = ExponentialStatistics.fromstate(state)
ExpFromState(state) ==
    /\ esop' = [name |-> "fromstate", has_decay |-> TRUE, decay |-> state[3]]
    /\ es' = ExponentialStatistics_fromstate(state)
    /\ eskept' = (es' = es)
    /\ err' = "ok"
    /\ npush' = 0
    /\ nmerge' = 0
    /\ UNCHANGED <<arith, timeVars, heapVars, statsVars, regrVars>>

\* Every public operation that writes an ExponentialStatistics object.
NextExpAll ==
    \/ \E d \in Decays, m \in ExpVals, v \in ExpVals : ExpInit(d, m, v)
    \/ \E v \in ExpVals : ExpPush(v)
    \/ \E m \in ExpVals, v \in ExpVals, h \in BOOLEAN, d \in Decays :
           ExpClear(m, v, h, d)
    \/ \E d \in Decays : ExpChangeDecay(d)
    \/ \E that \in ExpOperands : ExpIAdd(that)
    \/ \E that \in ExpOperands : ExpAdd(that)
    \/ \E f \in ExpFactors : ExpIMul(f)
    \/ \E f \in ExpFactors : ExpMul(f)
    \/ ExpCopy
    \/ \E state \in ExpStates : ExpSetState(state)
    \/ \E state \in ExpStates : ExpFromState(state)

SpecExpAll == Init /\ [][NextExpAll]_vars

\* Construction, and the merges and scalings.
NextExpMerge ==
    \/ \E d \in Decays, m \in ExpVals, v \in ExpVals : ExpInit(d, m, v)
    \/ \E that \in ExpOperands : ExpIAdd(that)
    \/ \E that \in ExpOperands : ExpAdd(that)
    \/ \E f \in ExpFactors : ExpIMul(f)
    \/ \E f \in ExpFactors : ExpMul(f)

SpecExpMerge == Init /\ [][NextExpMerge]_vars

(***************************************************************************)
(* Properties of Statistics.                                               *)
(***************************************************************************)
\* The sorted sequences over S of length at most k.
RECURSIVE SortedUpTo(_, _)
SortedUpTo(S, k) ==
    IF k = 0 THEN {<<>>}
    ELSE LET shorter == SortedUpTo(S, k - 1)
         IN  shorter \cup {Insert(s, v) : s \in shorter, v \in S}

\* Two-pass reference values: the mean of a sequence and the sum of the k-th
\* powers of its deviations from the mean.
RECURSIVE SeqSum(_)
SeqSum(s) == IF s = <<>> THEN 0 ELSE Head(s) + SeqSum(Tail(s))

MeanOf(s) == Q(SeqSum(s), Len(s))

RECURSIVE DevSum(_, _, _)
DevSum(s, m, k) ==
    IF s = <<>> THEN Zero
    ELSE QAdd(QPow(QSub(I(Head(s)), m), k), DevSum(Tail(s), m, k))

\* C1: in exact arithmetic, pushing S1 into one accumulator and S2 into another and
\* merging them (A + B or A += B) gives the count, eta, rho, tau, phi, min and max
\* of one accumulator into which all the values of S1 and S2 were pushed: every
\* accumulator built by pushes (in any order) and merges holds exactly the state
\* that pushing the values it has absorbed, one by one, gives.
C1_MergeEqualsSequential ==
    \A o \in Objs : stats[o] = Statistics_init(hist[o])

\* C1 witness: a += b has just merged a non-empty b into a longer a, and the
\* result has a non-zero third moment.
C1_Witness ==
    /\ sop = [name |-> "iadd", o |-> "a", l |-> "a", r |-> "b"]
    /\ Len(hist["b"]) >= 1
    /\ Len(hist["a"]) >= Len(hist["b"]) + 2
    /\ stats["a"].tau # Zero

\* C3: in exact arithmetic (A + B) + C and A + (B + C) have the same count, eta,
\* rho, tau, phi, min and max, for accumulators A and B built by pushes and merges
\* and every accumulator C built by pushing up to MaxThird values.
C3_MergeAssociative ==
    LET A == stats["a"]
        B == stats["b"]
        AB == Statistics_add(A, B)
    IN  \A s \in SortedUpTo(Vals, MaxThird) :
            LET C == Statistics_init(s)
            IN  Statistics_add(AB, C) = Statistics_add(A, Statistics_add(B, C))

\* C3 witness: a and b hold values with different means and a has spread, so
\* that the three-way merge with a non-empty c moves every moment.
C3_Witness ==
    /\ Len(hist["a"]) >= 2
    /\ Len(hist["b"]) >= 1
    /\ stats["a"].rho # Zero
    /\ stats["a"].eta # stats["b"].eta
    /\ \E s \in SortedUpTo(Vals, MaxThird) :
           /\ Len(s) = MaxThird
           /\ Statistics_add(Statistics_add(stats["a"], stats["b"]),
                             Statistics_init(s)).tau # Zero

\* C5: in exact arithmetic, after pushing v1..vn (n >= 1) one at a time into an
\* empty accumulator, count = n, eta is the mean m of the values, rho, tau and
\* phi are the sums of (vi - m)^2, (vi - m)^3 and (vi - m)^4, and
\* variance(ddof) = rho / (n - ddof).
C5_PushMoments ==
    \A o \in Objs :
        LET s == hist[o]
            m == MeanOf(s)
        IN  Len(s) >= 1 =>
                /\ stats[o].count = I(Len(s))
                /\ stats[o].eta = m
                /\ stats[o].rho = DevSum(s, m, 2)
                /\ stats[o].tau = DevSum(s, m, 3)
                /\ stats[o].phi = DevSum(s, m, 4)
                /\ \A ddof \in 0..1 :
                       Len(s) > ddof =>
                           Statistics_variance(stats[o], I(ddof))
                               = QDiv(DevSum(s, m, 2), I(Len(s) - ddof))

\* C5 witness: three or more values were pushed into a, not all equal, the last
\* of them below an earlier one (the pushes did not arrive in sorted order).
C5_Witness ==
    /\ sop = [name |-> "push", o |-> "a", l |-> "", r |-> ""]
    /\ Len(hist["a"]) >= 3
    /\ stats["a"].tau # Zero
    /\ stats["a"].phi # Zero
    /\ Lt(stats["a"].min, stats["a"].eta)
    /\ Gt(stats["a"].max, stats["a"].eta)

(***************************************************************************)
(* Properties of Regression.                                               *)
(***************************************************************************)
\* The x and the y coordinates of a sequence of point indices.
RECURSIVE Xs(_)
Xs(s) == IF s = <<>> THEN <<>> ELSE <<Point(Head(s))[1]>> \o Xs(Tail(s))

RECURSIVE Ys(_)
Ys(s) == IF s = <<>> THEN <<>> ELSE <<Point(Head(s))[2]>> \o Ys(Tail(s))

\* Two-pass reference value: the sum of (xi - mx)(yi - my).
RECURSIVE CoDevSum(_, _, _)
CoDevSum(s, mx, my) ==
    IF s = <<>> THEN Zero
    ELSE QAdd(QMul(QSub(I(Point(Head(s))[1]), mx), QSub(I(Point(Head(s))[2]), my)),
              CoDevSum(Tail(s), mx, my))

DistinctXs(s) == Cardinality({Point(s[k])[1] : k \in 1..Len(s)})

OnLine(s, a, b) == \A k \in 1..Len(s) : Point(s[k])[2] = a * Point(s[k])[1] + b

LineCoefs == (0 - 5)..5

\* C4: in exact arithmetic A + B and B + A are the same state, for Regression
\* accumulators (count, sxy, xstats, ystats) and for the Statistics accumulators
\* they own (count, eta, rho, tau, phi, min, max).
C4_MergeCommutative ==
    LET A == regr["ra"]
        B == regr["rb"]
    IN  /\ Regression_add(A, B) = Regression_add(B, A)
        /\ Regression_iadd(A, B) = Regression_iadd(B, A)
        /\ Statistics_add(A.xstats, B.xstats) = Statistics_add(B.xstats, A.xstats)
        /\ Statistics_iadd(A.ystats, B.ystats) = Statistics_iadd(B.ystats, A.ystats)

\* C4 witness: ra and rb hold different numbers of pairs with different means,
\* ra has spread in x, and their merge has a non-zero third moment in y and a
\* non-zero co-moment.
C4_Witness ==
    LET A == regr["ra"]
        B == regr["rb"]
    IN  /\ ~Eq(B.count, Zero)
        /\ Gt(A.count, B.count)
        /\ A.xstats.eta # B.xstats.eta
        /\ A.ystats.eta # B.ystats.eta
        /\ A.xstats.rho # Zero
        /\ Regression_add(A, B).ystats.tau # Zero
        /\ Regression_add(A, B).sxy # A.sxy

\* C6: in exact arithmetic, a Regression accumulator built by pushes (in any
\* order) and merges has the count, sxy, xstats and ystats of one built by pushing
\* the pairs it has absorbed, one by one.
C6_RegressionMergeEqualsSequential ==
    \A o \in RObjs : regr[o] = Regression_init(rhist[o])

\* C6 witness: ra += rb has just merged a non-empty rb into a non-empty ra, and the
\* merge changed the co-moment.
C6_Witness ==
    /\ rop = [name |-> "iadd", o |-> "ra", l |-> "ra", r |-> "rb"]
    /\ Len(rhist["rb"]) >= 1
    /\ Len(rhist["ra"]) > Len(rhist["rb"])
    /\ regr["ra"].sxy # Zero
    /\ regr["ra"].sxy # regr["rb"].sxy

\* C7: in exact arithmetic sxy is the sum of (xi - mean_x)(yi - mean_y) over the
\* pairs absorbed; with two or more distinct x values slope() is sxy divided by
\* the sum of (xi - mean_x)^2 and intercept() is mean_y - slope * mean_x, and when
\* every pair lies on y = a*x + b, slope() = a and intercept() = b; for
\* accumulators built by pushes alone and by merges.
C7_SlopeIntercept ==
    \A o \in RObjs :
        LET s == rhist[o]
            mx == MeanOf(Xs(s))
            my == MeanOf(Ys(s))
            sxx == DevSum(Xs(s), mx, 2)
        IN  /\ Len(s) >= 1 => regr[o].sxy = CoDevSum(s, mx, my)
            /\ DistinctXs(s) >= 2 =>
                   /\ Regression_slope(regr[o], One) = QDiv(CoDevSum(s, mx, my), sxx)
                   /\ Regression_intercept(regr[o], One)
                          = QSub(my, QMul(QDiv(CoDevSum(s, mx, my), sxx), mx))
                   /\ \A a \in LineCoefs, b \in LineCoefs :
                          OnLine(s, a, b) =>
                              /\ Regression_slope(regr[o], One) = I(a)
                              /\ Regression_intercept(regr[o], One) = I(b)

\* C7 witness: ra += rb has just merged pairs that all lie on y = 2x + 1, with
\* two distinct x values between them.
C7_Witness ==
    /\ rop = [name |-> "iadd", o |-> "ra", l |-> "ra", r |-> "rb"]
    /\ Len(rhist["rb"]) >= 1
    /\ Len(rhist["ra"]) > Len(rhist["rb"])
    /\ DistinctXs(rhist["ra"]) >= 2
    /\ OnLine(rhist["ra"], 2, 1)
    /\ Regression_slope(regr["ra"], One) = I(2)

\* C8: in every state reached by push, +=, +, clear and copy, a Regression
\* accumulator's xstats.count, ystats.count and count are equal.
C8_CountsAgree ==
    \A o \in RObjs :
        /\ regr[o].xstats.count = regr[o].count
        /\ regr[o].ystats.count = regr[o].count

\* C8 witness: an out-of-place merge has just produced an accumulator of three
\* pairs.
C8_Witness ==
    /\ rop.name = "add"
    /\ rop.l # rop.r
    /\ regr[rop.o].count = I(3)

(***************************************************************************)
(* Properties of merging with an empty accumulator.                        *)
(***************************************************************************)
\* C2: merging with a freshly constructed empty accumulator, on either side,
\* leaves every field (count, eta, rho, tau, phi, min, max) identical to what it
\* was, bit for bit.
C2_EmptyMergeIsIdentity ==
    \A o \in Objs :
        /\ Statistics_iadd(stats[o], Statistics_clear) = stats[o]
        /\ Statistics_add(Statistics_clear, stats[o]) = stats[o]

(***************************************************************************)
(* Properties of ExponentialStatistics.                                    *)
(***************************************************************************)
\* A decay at or below 0, or at or above 1.
OutsideOpenUnitInterval(d) == Le(d, Zero) \/ Ge(d, One)

C10_BadClearLeavesState ==
    (/\ esop.name = "clear"
     /\ esop.has_decay
     /\ OutsideOpenUnitInterval(esop.decay)
     /\ Gt(es.decay, Zero)
     /\ Lt(es.decay, One))
        => (err = "ValueError" /\ eskept)

(***************************************************************************)
(* Properties of the accessors of Statistics.                              *)
(***************************************************************************)
\* C12: variance(ddof), stddev(ddof), skewness() and kurtosis() raise no error in
\* any reachable state, and whenever count <= ddof or rho = 0 what they return is
\* not a finite number.
C12_AccessorsNeverRaise ==
    \A o \in Objs, ddof \in {Zero, One} :
        LET self == stats[o]
        IN  /\ ~variance_raises(self, ddof)
            /\ ~stddev_raises(self, ddof)
            /\ ~skewness_raises(self)
            /\ ~kurtosis_raises(self)
            /\ (Le(self.count, ddof) \/ Eq(self.rho, Zero)) =>
                   /\ ~IsFinite(Statistics_variance(self, ddof))
                   /\ ~stddev_finite(self, ddof)
                   /\ ~skewness_finite(self)
                   /\ ~IsFinite(Statistics_kurtosis(self))

(***************************************************************************)
(* Properties of the scaling of Statistics.                                *)
(***************************************************************************)
\* after is before with count, rho, tau and phi multiplied by f and eta, min and
\* max as they were.
ScaledBy(before, after, f) ==
    /\ after.count = QMul(before.count, f)
    /\ after.rho = QMul(before.rho, f)
    /\ after.tau = QMul(before.tau, f)
    /\ after.phi = QMul(before.phi, f)
    /\ after.eta = before.eta
    /\ after.min = before.min
    /\ after.max = before.max

\* C13: o *= f and o = p * f give count, rho, tau and phi multiplied by f and leave
\* eta, min and max as they were (and o = p * f leaves p as it was).
C13_ScaleFrame ==
    [][/\ \A o \in Objs, f \in Factors :
              StatsIMul(o, f) => ScaledBy(stats[o], stats'[o], f)
       /\ \A o \in Objs, p \in Objs, f \in Factors :
              StatsMul(o, p, f) =>
                  /\ ScaledBy(stats[p], stats'[o], f)
                  /\ o # p => stats'[p] = stats[p]]_vars

\* C13 witness: b = a * f has just doubled the weight of an accumulator with a
\* non-zero mean and spread.
C13_Witness ==
    /\ sop = [name |-> "mul", o |-> "b", l |-> "a", r |-> ""]
    /\ stats["a"].eta # Zero
    /\ stats["a"].rho # Zero
    /\ stats["b"].count = QMul(I(2), stats["a"].count)
    /\ stats["b"].rho = QMul(I(2), stats["a"].rho)

\* C14: count >= 0 in every state reached by push, merge, clear and scaling by
\* any factor the scaling accepts.
C14_CountNonNegative ==
    \A o \in Objs : Ge(stats[o].count, Zero)

\* C15: whenever count > 0, min <= max; and in an accumulator built by pushes and
\* merges alone, min is the smallest and max the largest of the values absorbed.
C15_MinMax ==
    \A o \in Objs :
        /\ Gt(stats[o].count, Zero) => Le(stats[o].min, stats[o].max)
        /\ (~scaled[o] /\ hist[o] # <<>>) =>
               /\ stats[o].min = I(hist[o][1])
               /\ stats[o].max = I(hist[o][Len(hist[o])])

\* C15 witness: a += b has just merged a scaled b into a, leaving a positive count
\* and min below max.
C15_Witness ==
    /\ sop = [name |-> "iadd", o |-> "a", l |-> "a", r |-> "b"]
    /\ scaled["b"]
    /\ Len(hist["b"]) >= 1
    /\ Len(hist["a"]) > Len(hist["b"])
    /\ Gt(stats["a"].count, Zero)
    /\ Lt(stats["a"].min, stats["a"].max)

\* C16: whenever count = 0, min and max are NaN.
C16_EmptyMinMaxNaN ==
    \A o \in Objs :
        Eq(stats[o].count, Zero) => IsNaN(stats[o].min) /\ IsNaN(stats[o].max)

(***************************************************************************)
(* Properties of the decay, the push and the merge of ExponentialStatistics.*)
(***************************************************************************)
\* C11: in every state reached by construction, push, clear, change_decay, +, +=,
\* *, *=, copy, set_state and fromstate, the decay of the object, when it is a
\* number, is strictly between 0 and 1.
C11_DecayInOpenUnitInterval ==
    (es.live /\ ~IsNaN(es.decay)) => (Gt(es.decay, Zero) /\ Lt(es.decay, One))

\* The README example: decay 0.5 from mean 0, push 10 gives mean 5 and push 20
\* gives mean 12.5.
PushExample ==
    LET e0 == ExponentialStatistics_init(Q(1, 2), Zero, Zero)
        e1 == ExponentialStatistics_push(e0, I(10))
        e2 == ExponentialStatistics_push(e1, I(20))
    IN  e1.mean = I(5) /\ e2.mean = Q(25, 2)

\* C17: in exact arithmetic push(value) gives
\* mean' = decay*mean + (1 - decay)*value and
\* variance' = decay*(variance + (1 - decay)*(value - mean)^2), with the mean from
\* before the push, and leaves decay as it was; and the README example holds.
C17_PushUpdate ==
    /\ PushExample
    /\ [][\A value \in ExpVals :
              ExpPush(value) =>
                  /\ es'.mean = QAdd(QMul(es.decay, es.mean),
                                     QMul(QSub(One, es.decay), value))
                  /\ es'.variance =
                         QMul(es.decay,
                              QAdd(es.variance,
                                   QMul(QSub(One, es.decay),
                                        QPow(QSub(value, es.mean), 2))))
                  /\ es'.decay = es.decay]_vars

\* C17 witness: a second push has just moved an object of decay 1/2 whose mean
\* the first push had moved.
C17_Witness ==
    /\ esop.name = "push"
    /\ npush = 2
    /\ es.decay = Q(1, 2)
    /\ es.mean = Q(1, 4)
    /\ es.variance # Zero

\* C18: a += b and a + b give mean = a.mean + b.mean, variance = a.variance +
\* b.variance and the decay of a, whatever the decay of b; a *= f and a * f give
\* mean and variance multiplied by f and the decay of a.
C18_MergeAndScale ==
    [][/\ \A that \in ExpOperands :
              (ExpIAdd(that) \/ ExpAdd(that)) =>
                  /\ es'.mean = QAdd(es.mean, that.mean)
                  /\ es'.variance = QAdd(es.variance, that.variance)
                  /\ es'.decay = es.decay
       /\ \A f \in ExpFactors :
              (ExpIMul(f) \/ ExpMul(f)) =>
                  /\ es'.mean = QMul(es.mean, f)
                  /\ es'.variance = QMul(es.variance, f)
                  /\ es'.decay = es.decay]_vars

\* C18 witness: es + that has just been taken with a that of another decay and a
\* non-zero mean and variance.
C18_Witness ==
    /\ esop.name = "add"
    /\ IsFinite(es.decay)
    /\ IsFinite(esop.decay)
    /\ esop.decay # es.decay
    /\ es.mean = I(2)
    /\ es.variance # Zero

(***************************************************************************)
(* Properties of snapshots, equality and clear.                            *)
(***************************************************************************)
\* C19: every reachable accumulator, a fresh or cleared one included, compares
\* equal to its copy (the accumulator rebuilt from its snapshot), and two
\* accumulators compare equal exactly when their snapshots are field by field
\* the same; for Regression and for the Statistics accumulators it owns.
C19_CopyEqualsOriginal ==
    /\ \A o \in RObjs :
           /\ Regression_eq(Regression_copy(regr[o]), regr[o])
           /\ Statistics_eq(Statistics_copy(regr[o].xstats), regr[o].xstats)
    /\ \A o \in RObjs, p \in RObjs :
           Regression_eq(regr[o], regr[p])
               <=> Regression_get_state(regr[o]) = Regression_get_state(regr[p])

EmptyHeap == [x \in Addrs |-> Free]

\* a = cls(); b = cls()
InitHeap ==
    /\ kind \in Kinds
    /\ \E oa \in {Op_new(EmptyHeap)} :
           \E ob \in {Op_new(oa.heap)} :
               /\ heap = ob.heap
               /\ env = [n \in Names |-> IF n = "a" THEN oa.ref ELSE ob.ref]
    /\ hop = [name |-> "none", o |-> "", l |-> "", r |-> ""]
    /\ hops = 0

InitAlias == arith = "exact" /\ InitCaller /\ InitHeap /\ InitNoTime

\* o.push(...)
HeapPush(o, k) ==
    /\ hops < MaxHeapOps
    /\ heap' = Op_push(heap, env[o], k)
    /\ hop' = [name |-> "push", o |-> o, l |-> "", r |-> ""]
    /\ hops' = hops + 1
    /\ UNCHANGED <<kind, env, arith, timeVars, statsVars, regrVars, expVars>>

\* o.clear()
HeapClear(o) ==
    /\ hops < MaxHeapOps
    /\ heap' = Op_clear(heap, env[o])
    /\ hop' = [name |-> "clear", o |-> o, l |-> "", r |-> ""]
    /\ hops' = hops + 1
    /\ UNCHANGED <<kind, env, arith, timeVars, statsVars, regrVars, expVars>>

\* o += p
HeapIAdd(o, p) ==
    /\ hops < MaxHeapOps
    /\ \E h \in {Op_iadd(heap, env[o], env[p])} : heap' = Collect(h, env)
    /\ hop' = [name |-> "iadd", o |-> o, l |-> o, r |-> p]
    /\ hops' = hops + 1
    /\ UNCHANGED <<kind, env, arith, timeVars, statsVars, regrVars, expVars>>

\* o = p + q
HeapAdd(o, p, q) ==
    /\ hops < MaxHeapOps
    /\ \E sigma \in {Op_add(heap, env[p], env[q])} :
           /\ env' = [env EXCEPT ![o] = sigma.ref]
           /\ heap' = Collect(sigma.heap, env')
    /\ hop' = [name |-> "add", o |-> o, l |-> p, r |-> q]
    /\ hops' = hops + 1
    /\ UNCHANGED <<kind, arith, timeVars, statsVars, regrVars, expVars>>

\* o = p.copy()
HeapCopy(o, p) ==
    /\ hops < MaxHeapOps
    /\ \E new \in {Op_copy(heap, env[p])} :
           /\ env' = [env EXCEPT ![o] = new.ref]
           /\ heap' = Collect(new.heap, env')
    /\ hop' = [name |-> "copy", o |-> o, l |-> p, r |-> ""]
    /\ hops' = hops + 1
    /\ UNCHANGED <<kind, arith, timeVars, statsVars, regrVars, expVars>>

\* o *= 2
HeapIMul(o) ==
    /\ hops < MaxHeapOps
    /\ kind # "Regression"
    /\ heap' = Op_imul(heap, env[o], I(2))
    /\ hop' = [name |-> "imul", o |-> o, l |-> o, r |-> ""]
    /\ hops' = hops + 1
    /\ UNCHANGED <<kind, env, arith, timeVars, statsVars, regrVars, expVars>>

\* o = p * 2
HeapMul(o, p) ==
    /\ hops < MaxHeapOps
    /\ kind # "Regression"
    /\ \E sigma \in {Op_mul(heap, env[p], I(2))} :
           /\ env' = [env EXCEPT ![o] = sigma.ref]
           /\ heap' = Collect(sigma.heap, env')
    /\ hop' = [name |-> "mul", o |-> o, l |-> p, r |-> ""]
    /\ hops' = hops + 1
    /\ UNCHANGED <<kind, arith, timeVars, statsVars, regrVars, expVars>>

NextAlias ==
    \/ \E o \in Names, k \in Vals : HeapPush(o, k)
    \/ \E o \in Names : HeapClear(o)
    \/ \E o \in Names, p \in Names : HeapIAdd(o, p)
    \/ \E o \in Names, p \in Names, q \in Names : HeapAdd(o, p, q)
    \/ \E o \in Names, p \in Names : HeapCopy(o, p)
    \/ \E o \in Names : HeapIMul(o)
    \/ \E o \in Names, p \in Names : HeapMul(o, p)

SpecAlias == InitAlias /\ [][NextAlias]_vars

(***************************************************************************)
(* Merging an accumulator with itself                                      *)
(***************************************************************************)
\* A caller that pushes into a and ra and merges each with itself.
NextSelf ==
    \/ \E v \in Vals : StatsPush("a", v)
    \/ StatsIAdd("a", "a")
    \/ \E i \in PointIds : RegrPush("ra", i)
    \/ RegrIAdd("ra", "ra")

SpecSelf == Init /\ [][NextSelf]_vars

\* after is before with twice the count and the same mean, min and max
Doubled(before, after) ==
    /\ after.count = QMul(I(2), before.count)
    /\ after.eta = before.eta
    /\ after.min = before.min
    /\ after.max = before.max

\* C26: stats += stats and regr += regr give twice the count, the same mean, min
\* and max, and the state that merging with an independent copy of the original
\* gives.
C26_SelfMerge ==
    [][/\ StatsIAdd("a", "a") =>
              /\ Doubled(stats["a"], stats'["a"])
              /\ stats'["a"] =
                     Statistics_iadd(stats["a"], Statistics_copy(stats["a"]))
       /\ RegrIAdd("ra", "ra") =>
              /\ regr'["ra"].count = QMul(I(2), regr["ra"].count)
              /\ Doubled(regr["ra"].xstats, regr'["ra"].xstats)
              /\ Doubled(regr["ra"].ystats, regr'["ra"].ystats)
              /\ regr'["ra"] =
                     Regression_iadd(regr["ra"], Regression_copy(regr["ra"]))]_vars

\* C26 witness: a and ra, each holding two different entries, have each been
\* merged with themselves, ra last.
C26_Witness ==
    /\ sop = [name |-> "iadd", o |-> "a", l |-> "a", r |-> "a"]
    /\ rop = [name |-> "iadd", o |-> "ra", l |-> "ra", r |-> "ra"]
    /\ stats["a"].count = I(4)
    /\ stats["a"].rho # Zero
    /\ regr["ra"].count = I(4)
    /\ regr["ra"].sxy # Zero

(***************************************************************************)
(* No sharing between objects                                              *)
(***************************************************************************)
\* C27: a statement changes the object of the name it mutates or binds and no
\* other: a + b, a * f and a.copy() leave their operands as they were, a += b
\* leaves b as it was, and a push, merge, scaling or clear on an object made by
\* +, * or copy() leaves the objects it was made from as they were, and the other
\* way round; no two names lead to a common object.
C27_NoSharing ==
    /\ [](\A n \in Names, m \in Names :
              n # m => Cells(heap, env[n]) \cap Cells(heap, env[m]) = {})
    /\ [][\A n \in Names :
              n # hop'.o => Value(heap', env', n) = Value(heap, env, n)]_vars

\* C27 witness: a Regression b made from a by + or copy() has then been pushed
\* into, and a holds its one pair.
C27_Witness ==
    /\ kind = "Regression"
    /\ hop = [name |-> "push", o |-> "b", l |-> "", r |-> ""]
    /\ hops = 3
    /\ Value(heap, env, "a").count = I(1)
    /\ Value(heap, env, "a").xstats.count = I(1)
    /\ Value(heap, env, "b").xstats.count \in {I(2), I(3)}

(***************************************************************************)
(* Scaling by factors that are not negative                                *)
(***************************************************************************)
\* the factors k/2 from 0 to MaxFactor
NonNegFactors == {Q(k, 2) : k \in 0..(2 * MaxFactor)}

\* push, +=, +, clear, and *= by a factor that is not negative
NextScalePos ==
    \/ \E o \in Objs, v \in Vals : StatsPush(o, v)
    \/ \E o \in Objs, p \in Objs : StatsIAdd(o, p)
    \/ \E o \in Objs, p \in Objs, q \in Objs : StatsAdd(o, p, q)
    \/ \E o \in Objs : StatsClear(o)
    \/ \E o \in Objs, f \in NonNegFactors : StatsIMul(o, f)

SpecScalePos == Init /\ [][NextScalePos]_vars

\* C28: rho >= 0 in every state reached by push, merge, clear and scaling by
\* factors that are not negative, in exact arithmetic.
C28_RhoNonNegative == \A o \in Objs : Ge(stats[o].rho, Zero)

\* C28 witness: an accumulator scaled by a factor that is not whole has been
\* merged into another, and the sum has a count that is not whole and a spread.
C28_Witness ==
    /\ sop.name \in {"iadd", "add"}
    /\ scaled[sop.r]
    /\ sop.r # sop.o
    /\ stats[sop.o].count.d = 2
    /\ Gt(stats[sop.o].rho, Zero)
    /\ Gt(stats[sop.o].count, stats[sop.r].count)

(***************************************************************************)
(* Scaling by a whole factor and merging with itself                       *)
(***************************************************************************)
\* self merged with k - 1 copies of itself
RECURSIVE KFold(_, _)
KFold(self, k) ==
    IF k = 1 THEN self
    ELSE Statistics_add(KFold(self, k - 1), Statistics_copy(self))

RoundDecays ==
    {Q(1, 2), IF arith = "float" THEN Q(1, Pow2(MantBits + 1)) ELSE Q(1, 4)}

\* values and means from -2^MantBits to 3
RoundVals == {I(0 - Pow2(MantBits)), Zero, One, I(3)}

InitRound == arith \in {"exact", "float"} /\ InitObjects

NextRound ==
    \/ \E d \in RoundDecays, m \in RoundVals, v \in ExpVals : ExpInit(d, m, v)
    \/ \E x \in RoundVals : ExpPush(x)

SpecRound == InitRound /\ [][NextRound]_vars

\* c lies in the closed interval between a and b
Between(a, b, c) == (Le(a, c) /\ Le(c, b)) \/ (Le(b, c) /\ Le(c, a))

\* C30 as stated: a push into an object with variance >= 0 and decay in (0,1)
\* leaves variance >= 0 and a mean in the closed interval between the mean before
\* the push and the value pushed.
C30_VarianceAndMeanBounds ==
    [][\A x \in RoundVals :
           (/\ ExpPush(x)
            /\ Ge(es.variance, Zero)
            /\ Gt(es.decay, Zero) /\ Lt(es.decay, One)) =>
               /\ Ge(es'.variance, Zero)
               /\ Between(es.mean, x, es'.mean)]_vars

\* C30 amended: a push into an object with variance >= 0 and decay in (0,1)
\* leaves variance >= 0, also under rounding, and in exact arithmetic a mean in
\* the closed interval between the mean before the push and the value pushed.
C30_VarianceAndExactMeanBounds ==
    [][\A x \in RoundVals :
           (/\ ExpPush(x)
            /\ Ge(es.variance, Zero)
            /\ Gt(es.decay, Zero) /\ Lt(es.decay, One)) =>
               /\ Ge(es'.variance, Zero)
               /\ arith = "exact" => Between(es.mean, x, es'.mean)]_vars

\* C30 witness: in exact arithmetic a push of 3 has moved an object of decay 1/2
\* from its mean -2^MantBits half way to 3 and given it a variance.
C30_Witness ==
    /\ arith = "exact"
    /\ esop.name = "push"
    /\ npush = 1
    /\ es.decay = Q(1, 2)
    /\ es.mean = Q(3 - Pow2(MantBits), 2)
    /\ Gt(es.variance, Zero)


(***************************************************************************)
(* Time-based ExponentialMovingStatistics: a caller holding a and b, and c *)
(* for the result of an addition, and a clock that advances between the    *)
(* calls.                                                                  *)
(***************************************************************************)
Live(o) == ems[o] # NoMoment

\* a is time-based and starts from zero; b is time-based with the longest
\* delay, or not time-based, and starts from a mean and variance of one
InitMoments ==
    /\ now = 0
    /\ \E da \in Delays, db \in {MaxDelay, None} :
           ems = [o \in TimeNames |->
                     IF o = "a"
                     THEN ExponentialMovingStatistics_init(DecayOf(da), Zero, Zero,
                                                           da, 0)
                     ELSE IF o = "b"
                     THEN ExponentialMovingStatistics_init(DecayOf(db), One, One,
                                                           db, 0)
                     ELSE NoMoment]
    /\ ecov = NoMoment
    /\ top = NoCall
    /\ tg = [o \in TimeNames |->
                IF o = "c" THEN NoGhost ELSE [NoGhost EXCEPT !.anchor = 0,
                                                             !.event = "init"]]
    /\ tops = 0
    /\ tpush = 0

InitTime == arith = "exact" /\ InitCaller /\ InitNoHeap /\ InitMoments

\* the call made, counted
Called(call) ==
    /\ tops < MaxTimeOps
    /\ top' = call
    /\ tops' = tops + 1
    /\ UNCHANGED <<arith, heapVars, statsVars, regrVars, expVars>>

\* time passes
TimeTick ==
    /\ now < MaxNow
    /\ now' = now + 1
    /\ UNCHANGED <<ems, ecov, top, tg, tops, tpush>>
    /\ UNCHANGED <<arith, heapVars, statsVars, regrVars, expVars>>

\* o.push(v)
TimePush(o, v) ==
    /\ Live(o)
    /\ tpush < MaxTimePush
    /\ ems' = [ems EXCEPT ![o] = ExponentialMovingStatistics_push(ems[o], v, now)]
    /\ tg' = [tg EXCEPT ![o] = Anchored(tg[o], ems[o], now, "push")]
    /\ tpush' = tpush + 1
    /\ Called([NoCall EXCEPT !.name = "push", !.o = o, !.v = v,
                              !.since = now - tg[o].anchor])
    /\ UNCHANGED <<now, ecov>>

\* o.clear()
TimeClear(o) ==
    /\ Live(o)
    /\ ems' = [ems EXCEPT ![o] = ExponentialMovingStatistics_clear(ems[o], now)]
    /\ tg' = [tg EXCEPT ![o] = Anchored(tg[o], ems'[o], now, "clear")]
    /\ Called([NoCall EXCEPT !.name = "clear", !.o = o])
    /\ UNCHANGED <<now, ecov, tpush>>

\* o.freeze()
TimeFreeze(o) ==
    /\ Live(o)
    /\ is_time_based(ems[o])
    /\ ems' = [ems EXCEPT ![o] = ExponentialMovingStatistics_freeze(ems[o], now)]
    /\ tg' = [tg EXCEPT ![o].paused = TRUE,
                        ![o].captured = now - ems[o].referenceTimestamp,
                        ![o].event = "freeze"]
    /\ Called([NoCall EXCEPT !.name = "freeze", !.o = o])
    /\ UNCHANGED <<now, ecov, tpush>>

\* o.unfreeze(), o frozen
TimeUnfreeze(o) ==
    /\ Live(o)
    /\ is_time_based(ems[o])
    /\ ems[o].isFrozen
    /\ ems' = [ems EXCEPT ![o] = ExponentialMovingStatistics_unfreeze(ems[o], now)]
    /\ tg' = [tg EXCEPT ![o].resumed = now, ![o].event = "unfreeze"]
    /\ Called([NoCall EXCEPT !.name = "unfreeze", !.o = o])
    /\ UNCHANGED <<now, ecov, tpush>>

\* c = p + q
TimeAdd(p, q, thaw) ==
    /\ Live(p) /\ Live(q)
    /\ ems' = [ems EXCEPT !["c"] =
                   ExponentialMovingStatistics_add(ems[p], ems[q], now, thaw)]
    /\ tg' = [tg EXCEPT !["c"] = Anchored(tg[p], ems'["c"], now, "add")]
    /\ Called([NoCall EXCEPT !.name = "add", !.o = "c", !.l = p, !.r = q])
    /\ UNCHANGED <<now, ecov, tpush>>

\* o += q
TimeIAdd(o, q) ==
    /\ Live(o) /\ Live(q)
    /\ ems' = [ems EXCEPT ![o] = ExponentialMovingStatistics_iadd(ems[o], ems[q])]
    /\ Called([NoCall EXCEPT !.name = "iadd", !.o = o, !.l = o, !.r = q])
    /\ UNCHANGED <<now, ecov, tg, tpush>>

\* The caller pushes into a and c, and clears, freezes and adds to a; b is an
\* operand only.
NextTime ==
    \/ TimeTick
    \/ \E o \in {"a", "c"}, v \in TimeVals : TimePush(o, v)
    \/ TimeClear("a")
    \/ TimeFreeze("a")
    \/ TimeUnfreeze("a")
    \/ \E p \in {"a", "b"}, thaw \in BOOLEAN : TimeAdd(p, "b", thaw)
    \/ TimeIAdd("a", "b")

SpecTime == InitTime /\ [][NextTime]_vars

(***************************************************************************)
(* ExponentialMovingCovariance: one object, pushed into as time passes.    *)
(***************************************************************************)
InitCovariance ==
    /\ now = 0
    /\ ems = [o \in TimeNames |-> NoMoment]
    /\ \E delay \in Delays \cup {None} :
           ecov = ExponentialMovingCovariance_init(DecayOf(delay), delay, 0)
    /\ top = NoCall
    /\ tg = [o \in TimeNames |-> NoGhost]
    /\ tops = 0
    /\ tpush = 0

InitCov == arith = "exact" /\ InitCaller /\ InitNoHeap /\ InitCovariance

\* the coordinates pushed into the covariance
CovVals == {One, I(2)}

\* ecov.push(x, y)
CovPush(x, y) ==
    /\ tpush < MaxTimePush
    /\ ecov' = ExponentialMovingCovariance_push(ecov, x, y, now)
    /\ tpush' = tpush + 1
    /\ Called([NoCall EXCEPT !.name = "push", !.v = x, !.w = y])
    /\ UNCHANGED <<now, ems, tg>>

NextCov ==
    \/ TimeTick
    \/ \E x \in CovVals, y \in CovVals : CovPush(x, y)

SpecCov == InitCov /\ [][NextCov]_vars


(***************************************************************************)
(* Claims on the time-based mode.                                          *)
(***************************************************************************)
\* A step that is the call `name` on a time-based object.
TimeCall(name) == tops' = tops + 1 /\ top'.name = name

\* The mean and variance of after are those of the fixed-ratio update of self
\* by value with decay.
UpdatedWith(after, self, value, decay) ==
    /\ after.mean = fixed_ratio_push(self, value, decay).mean
    /\ after.variance = fixed_ratio_push(self, value, decay).variance
    /\ after.decay = self.decay

\* A push into a time-based object, not frozen, uses decay ** (since / delay),
\* since being the time from the most recent of its construction, its
\* previous push and its clear(): decay itself after delay, its square after
\* twice the delay.
PushUsesTimeSince(o) ==
    /\ UpdatedWith(ems'[o], ems[o], top'.v,
                   effective_decay(ems[o].decay, top'.since, ems[o].delay))
    /\ top'.since = now - tg[o].anchor
    /\ top'.since = ems[o].delay =>
           UpdatedWith(ems'[o], ems[o], top'.v, ems[o].decay)
    /\ top'.since = 2 * ems[o].delay =>
           UpdatedWith(ems'[o], ems[o], top'.v, Pow(ems[o].decay, 2))
    /\ ems'[o].referenceTimestamp = now

\* C21 as stated: in time-based mode with the clock not frozen, each push uses
\* effective decay = decay^(elapsed/delay), elapsed being the time since the
\* most recent of construction, the previous push, or clear(); after exactly
\* delay the update is that of a fixed-ratio accumulator with decay, after
\* 2*delay with decay^2.
C21_PushUsesElapsed ==
    [][\A o \in TimeNames :
          (TimeCall("push") /\ top'.o = o /\ is_time_based(ems[o])
                /\ ~ems[o].isFrozen)
              => PushUsesTimeSince(o)]_vars

\* C21, amended: the same, for an object on which freeze() has not been called
\* since the most recent of its construction, its previous push made while
\* not frozen, and its clear().
C21_PushUsesElapsedUnpaused ==
    [][\A o \in TimeNames :
          (TimeCall("push") /\ top'.o = o /\ is_time_based(ems[o])
                /\ ~ems[o].isFrozen /\ ~tg[o].paused)
              => PushUsesTimeSince(o)]_vars

\* Two pushes into a, the second twice the delay after the first, and no
\* other call.
C21_Witness ==
    /\ top.name = "push" /\ top.o = "a"
    /\ tops = 2 /\ tpush = 2
    /\ top.since = 2 * ems["a"].delay
    /\ ems["a"].referenceTimestamp = now
    /\ Gt(ems["a"].mean, Zero) /\ Gt(ems["a"].variance, Zero)

\* C22: every push made while frozen uses the elapsed time captured at
\* freeze() (from the clock anchor to the freeze call), however much time has
\* passed since and however many pushes were made while frozen; freeze()
\* leaves mean, variance and decay unchanged.
C22_FrozenPushUsesCaptured ==
    [][\A o \in TimeNames :
          /\ (TimeCall("push") /\ top'.o = o /\ is_time_based(ems[o])
                  /\ ems[o].isFrozen)
                 => /\ UpdatedWith(ems'[o], ems[o], top'.v,
                                   effective_decay(ems[o].decay, tg[o].captured,
                                                   ems[o].delay))
                    /\ ems'[o].isFrozen
                    /\ ems'[o].frozenElapsed = tg[o].captured
          /\ (TimeCall("freeze") /\ top'.o = o)
                 => /\ ems'[o].mean = ems[o].mean
                    /\ ems'[o].variance = ems[o].variance
                    /\ ems'[o].decay = ems[o].decay
                    /\ ems'[o].isFrozen]_vars

\* a was frozen one time unit after its construction and pushed into twice
\* since, time passing before each push.
C22_Witness ==
    /\ top.name = "push" /\ top.o = "a"
    /\ tops = 3 /\ tpush = 2
    /\ ems["a"].isFrozen /\ tg["a"].captured = 1
    /\ top.since >= 1 /\ now = MaxNow
    /\ Gt(ems["a"].mean, Zero)

\* C23: after freeze() captured e, unfreeze() and a further time t, the next
\* push uses elapsed = e + t, whatever time passed while frozen; unfreeze()
\* clears the frozen flag and leaves mean and variance unchanged.
C23_UnfreezeResumes ==
    [][\A o \in TimeNames :
          /\ (TimeCall("push") /\ top'.o = o /\ is_time_based(ems[o])
                  /\ tg[o].event = "unfreeze")
                 => UpdatedWith(ems'[o], ems[o], top'.v,
                                effective_decay(ems[o].decay,
                                    tg[o].captured + (now - tg[o].resumed),
                                    ems[o].delay))
          /\ (TimeCall("unfreeze") /\ top'.o = o)
                 => /\ ~ems'[o].isFrozen
                    /\ ems'[o].mean = ems[o].mean
                    /\ ems'[o].variance = ems[o].variance
                    /\ ems'[o].decay = ems[o].decay]_vars

\* freeze() one time unit after construction, unfreeze() a time unit later,
\* the push a time unit after that.
C23_Witness ==
    /\ top.name = "push" /\ top.o = "a"
    /\ tops = 3 /\ tpush = 1
    /\ tg["a"].captured = 1
    /\ tg["a"].resumed - tg["a"].captured >= 1
    /\ now - tg["a"].resumed >= 1
    /\ Gt(ems["a"].mean, Zero)

\* The clock state of an object.
Clock(self) == <<self.referenceTimestamp, self.isFrozen, self.frozenElapsed>>

\* C24: a + b for a time-based a returns a new accumulator whose clock anchor
\* is the time of the merge; a += b leaves the clock anchor, frozen flag and
\* frozen elapsed value of a as they were; both leave b unchanged, and the
\* delay of the result is that of a.
C24_ClockOfMerge ==
    [][/\ TimeCall("add")
           => /\ ems'["c"].delay = ems[top'.l].delay
              /\ ems'["c"].decay = ems[top'.l].decay
              /\ ems'["c"].mean = Add(ems[top'.l].mean, ems[top'.r].mean)
              /\ ems'["c"].variance =
                     Add(ems[top'.l].variance, ems[top'.r].variance)
              /\ is_time_based(ems[top'.l]) =>
                     now - ems'["c"].referenceTimestamp = 0
              /\ ems'[top'.l] = ems[top'.l]
              /\ ems'[top'.r] = ems[top'.r]
       /\ TimeCall("iadd")
           => /\ Clock(ems'[top'.o]) = Clock(ems[top'.o])
              /\ ems'[top'.o].delay = ems[top'.o].delay
              /\ ems'[top'.o].decay = ems[top'.o].decay
              /\ ems'[top'.o].mean = Add(ems[top'.o].mean, ems[top'.r].mean)
              /\ ems'[top'.r] = ems[top'.r]]_vars

\* c = a + b two time units after a was pushed into, a += b having been made
\* in between (the mean of a is above the value pushed).
C24_Witness ==
    /\ top.name = "add" /\ top.l = "a" /\ top.r = "b"
    /\ tops = 3 /\ tpush = 1
    /\ ems["c"].referenceTimestamp = now
    /\ now - ems["a"].referenceTimestamp = 2
    /\ ems["a"].delay # ems["b"].delay
    /\ ems["c"].delay = ems["a"].delay
    /\ Gt(ems["a"].mean, One)
    /\ ems["c"].mean = Add(ems["a"].mean, One)

\* C25: in every push(x, y) the covariance, the x moment and the y moment
\* are updated with one and the same effective decay, that of the one clock
\* reading of the push, and the covariance with the means of before the push.
C25_OneEffectiveDecay ==
    [][TimeCall("push") /\ ecov # NoMoment
          => /\ ecov'.covariance =
                    push_covariance(ecov, top'.v, top'.w,
                                    push_decay(ecov.xmoment, now))
             /\ UpdatedWith(ecov'.xmoment, ecov.xmoment, top'.v,
                            push_decay(ecov.xmoment, now))
             /\ UpdatedWith(ecov'.ymoment, ecov.ymoment, top'.w,
                            push_decay(ecov.xmoment, now))
             /\ Clock(ecov'.xmoment) = Clock(ecov'.ymoment)]_vars

\* The second push of a time-based covariance, a time unit after the first,
\* with different coordinates.
C25_Witness ==
    /\ ecov # NoMoment
    /\ tpush = 2 /\ top.name = "push" /\ top.v # top.w
    /\ is_time_based(ecov.xmoment)
    /\ now >= 2 /\ ecov.xmoment.referenceTimestamp = now
    /\ ~Eq(ecov.covariance, Zero)
    /\ Gt(ecov.xmoment.variance, Zero)

=============================================================================
